---- MODULE Spec2Model ----
(***************************************************************************)
(* RTT control plane: plan verification (tools/authentication.py), the     *)
(* Merkle-chained write-ahead log (tools/wal_operations.py) and the apply  *)
(* stage (auto/50-apply_plan.py), CAS ingestion (tools/cas_ingest.py) and  *)
(* the symbol scanner (auto/10-scan_symbols.py), the policy matcher and    *)
(* the placement solver, the plan builder (auto/40-plan_solver.py), the    *)
(* registry index, path validation (tools/validation.py) and role-based    *)
(* access control (mcp/auth/rbac.py).                                      *)
(*                                                                         *)
(* JSON objects are sequences of <<key, value>> pairs in insertion order   *)
(* (a Python dict); canonical JSON is the same pairs sorted by key.        *)
(* sha256 is a symbolic injective constructor.                             *)
(***************************************************************************)
EXTENDS Integers, Sequences, FiniteSets, TLC

\* ------------------------------------------------------------------ bounds
NumProcs == 2          \* runs of 50-apply_plan.py sharing one WAL directory
LockTimeout == 1       \* WAL_LOCK_TIMEOUT, in sleep periods of 0.1 s
MaxManifests == 2      \* *.json files in the manifests directory
MaxRules == 2          \* rules in a policy's allow list
MaxIterations == 2     \* placementMaxIterations, the cap of the local search

Procs == 1..NumProcs
None == "None"
GENESIS == <<"GENESIS">>

\* ------------------------------------------------------- JSON dictionaries
\* rank of a key in Python's string order (sort_keys=True)
KeyRank(k) ==
    CASE k = "alg" -> 1
      [] k = "apply" -> 2
      [] k = "created_at" -> 3
      [] k = "id" -> 4
      [] k = "key_id" -> 5
      [] k = "meta" -> 6
      [] k = "order" -> 7
      [] k = "plan_id" -> 8
      [] k = "prev" -> 9
      [] k = "remove" -> 10
      [] k = "routes_add" -> 11
      [] k = "routes_del" -> 12
      [] k = "sig" -> 13
      [] k = "sign" -> 14
      [] k = "ts" -> 15
      [] k = "version" -> 16
      [] k = "x" -> 17
      [] k = "y" -> 18

DictKeys(d) == {d[i][1] : i \in DOMAIN d}

\* dict.get(k, default)
DictGet(d, k, default) ==
    IF k \in DictKeys(d)
    THEN LET i == CHOOSE j \in DOMAIN d : d[j][1] = k IN d[i][2]
    ELSE default

\* d[k] = v: replaces the value in place, or appends a new key
DictSet(d, k, v) ==
    IF k \in DictKeys(d)
    THEN [i \in DOMAIN d |-> IF d[i][1] = k THEN <<k, v>> ELSE d[i]]
    ELSE Append(d, <<k, v>>)

\* dict.pop(k, None) on a copy
DictPop(d, k) == SelectSeq(d, LAMBDA kv : kv[1] # k)

\* insert one pair into a key-sorted sequence
RECURSIVE SortedInsert(_, _)
SortedInsert(s, kv) ==
    IF s = << >> THEN <<kv>>
    ELSE IF KeyRank(kv[1]) < KeyRank(Head(s)[1]) THEN <<kv>> \o s
    ELSE <<Head(s)>> \o SortedInsert(Tail(s), kv)

\* json.dumps(obj, sort_keys=True, separators=(',', ':')): the canonical bytes
RECURSIVE canon(_)
canon(d) ==
    IF d = << >> THEN << >>
    ELSE SortedInsert(canon(Tail(d)), Head(d))

\* hashlib.sha256(...).hexdigest(), symbolic and injective
Sha256(bytes) == <<"sha256", bytes>>


\* --------------------------------------------------- plan verification
\* outcome of a call: <<"return", "True">> or <<exception class, message>>
Ok == <<"return", "True">>
Pending == <<"pending", "">>
Raise(cls, msg) == <<cls, msg>>

\* Config.TRUSTED_KEY_IDS default "dev,prod"
TRUSTED_KEY_IDS == {"dev", "prod"}

\* contents of <KEYS_DIR>/<key_id>.pub after strip(): absent, "<type>:<key>"
\* or a bare "<key>"
NoKeyFile == <<"absent">>
KeyFile(type, pub) == <<"typed", type, pub>>
BareKeyFile(pub) == <<"bare", pub>>

\* a signature value: made with the private half of `pub` over `data`
SigBy(pub, data) == <<"sig", pub, data>>

\* ed25519_helper.verify(public_key, message, signature)
verify_sig(pub, data, sig) == sig = SigBy(pub, data)

\* plan_id = f"sha256-{hexdigest}"
PlanIdOf(bytes) == <<"sha256-", Sha256(bytes)>>
\* the empty string that plan.get("plan_id", "") yields for a missing key
EmptyStr == <<"">>

\* variant: only the "sha256-" prefix of the stored plan_id is compared
verify_plan_integrity_prefix_only(plan) ==
    LET expected_plan_id == DictGet(plan, "plan_id", EmptyStr)
    IN  IF expected_plan_id[1] # "sha256-"
        THEN Raise("ValidationError", "Plan integrity check failed")
        ELSE Ok

\* variant: the sign block is left in the hashed payload
verify_plan_integrity_keeps_sign(plan) ==
    LET expected_plan_id == DictGet(plan, "plan_id", EmptyStr)
        payload == DictPop(plan, "plan_id")
        computed_plan_id == PlanIdOf(canon(payload))
    IN  IF computed_plan_id # expected_plan_id
        THEN Raise("ValidationError", "Plan integrity check failed")
        ELSE Ok

verify_plan_integrity(plan) ==
    LET expected_plan_id == DictGet(plan, "plan_id", EmptyStr)
        payload == DictPop(DictPop(plan, "plan_id"), "sign")
        computed_plan_id == PlanIdOf(canon(payload))
    IN  IF computed_plan_id # expected_plan_id
        THEN Raise("ValidationError", "Plan integrity check failed")
        ELSE Ok

\* the key-file parsing of verify_plan_signature (lines 73-83): a declared
\* type other than ed25519 raises SignatureError inside the try block, and
\* the block's `except Exception` turns it into AuthenticationError
read_public_key(key_content) ==
    IF key_content[1] = "typed" /\ key_content[2] # "ed25519"
    THEN Raise("AuthenticationError", "Error reading public key")
    ELSE Ok

verify_plan_signature(plan_data, signature_info, keys, helper) ==
    LET algorithm == DictGet(signature_info, "alg", "")
        key_id == DictGet(signature_info, "key_id", "")
        signature == DictGet(signature_info, "sig", EmptyStr)
    IN  IF algorithm # "ed25519"
        THEN Raise("SignatureError", "Unsupported signature algorithm")
        ELSE IF key_id = "" \/ key_id \notin TRUSTED_KEY_IDS
        THEN Raise("AuthenticationError", "Untrusted key_id")
        ELSE IF keys[key_id] = NoKeyFile
        THEN Raise("AuthenticationError", "Public key not found")
        ELSE IF read_public_key(keys[key_id]) # Ok
        THEN read_public_key(keys[key_id])
        ELSE IF ~helper
        THEN Raise("SignatureError", "Signature verification unavailable")
        ELSE LET pub_key_b64 == keys[key_id][Len(keys[key_id])]
                 canonical_data == canon(plan_data)
             IN  IF ~verify_sig(pub_key_b64, canonical_data, signature)
                 THEN Raise("SignatureError", "Signature verification failed")
                 ELSE Ok

\* `not signature_info`: None (key absent) and {} are both falsy
Falsy(v) == v = << >>

\* variant: require_signature=None is taken as False, Config is not consulted
verify_plan_complete_ignores_config(plan, require_signature, cfg_require, keys, helper) ==
    LET integrity == verify_plan_integrity(plan)
        required == require_signature = "True"
        signature_info == DictGet(plan, "sign", << >>)
        plan_data == DictPop(plan, "sign")
    IN  IF integrity # Ok THEN integrity
        ELSE IF required \/ "sign" \in DictKeys(plan)
        THEN IF Falsy(signature_info)
             THEN IF required
                  THEN Raise("SignatureError", "Signature required but not present")
                  ELSE Ok
             ELSE verify_plan_signature(plan_data, signature_info, keys, helper)
        ELSE Ok

\* require_signature is "True", "False" or "None" (use Config.REQUIRE_SIGNATURES)
verify_plan_complete(plan, require_signature, cfg_require, keys, helper) ==
    LET integrity == verify_plan_integrity(plan)
        required == IF require_signature = None THEN cfg_require
                    ELSE require_signature = "True"
        signature_info == DictGet(plan, "sign", << >>)
        plan_data == DictPop(plan, "sign")
    IN  IF integrity # Ok THEN integrity
        ELSE IF required \/ "sign" \in DictKeys(plan)
        THEN IF Falsy(signature_info)
             THEN IF required
                  THEN Raise("SignatureError", "Signature required but not present")
                  ELSE Ok
             ELSE verify_plan_signature(plan_data, signature_info, keys, helper)
        ELSE Ok

\* ------------------------------------------------------------ WAL state
VARIABLES
    wal,         \* the *.wal.json files: records [name, root, frame]
    latest,      \* content of the LATEST file, NoFile when absent
    latestTmp,   \* content of LATEST.tmp, NoFile when absent
    lockHolder,  \* process whose open file description holds the flock, 0 if none
    cache,       \* content of desired.graph.json, NoFile when absent
    cacheTmp,    \* content of desired.graph.tmp, NoFile when absent
    now,         \* the whole second of the latest clock reading
    pc,          \* position of each process inside apply_plan / append_entry
    plan,        \* the plan document each process loaded
    entry,       \* the wal_entry dict each process is appending
    waited,      \* time.time() - start_time inside _acquire_lock, in sleep periods
    lockFile,    \* "open" while the file object made by _acquire_lock is unclosed
    exc,         \* exception travelling through append_entry's try block
    handle,      \* the file that a process's descriptor opened on LATEST.tmp refers to
    outcome,     \* how each process's apply_plan call ended
    chk,         \* outcome of the verify_chain call made on the WAL
    tampered,    \* TRUE once an entry file was altered from outside
    vin,         \* inputs of the verification call under check
    vint,        \* outcome of verify_plan_integrity on vin
    vout,        \* outcome of verify_plan_complete on vin
    vmut,        \* TRUE when vin.plan is a verified plan with one payload field altered
    cas,         \* the blob files of the CAS sha256 directory: records [name, bytes]
    ingested,    \* the agent files given to ingest_agent so far that it accepted
    scan,        \* the run of 10-scan_symbols.py: its position, inputs and lists
    index,       \* content of symbols.index.json, NoFile when absent
    fin,         \* the arguments a library function is being called with
    fout,        \* what that call returned or raised
    reg          \* the registry index file and the ingest runs updating it

walvars == <<wal, latest, latestTmp, lockHolder, cache, cacheTmp, now,
             pc, plan, entry, waited, lockFile, exc, handle, outcome, chk, tampered>>
vvars == <<vin, vint, vout, vmut>>
avars == <<chk, tampered>>
callvars == <<fin, fout, reg>>
toolvars == <<cas, ingested, scan, index, fin, fout, reg>>
vars == <<wal, latest, latestTmp, lockHolder, cache, cacheTmp, now,
          pc, plan, entry, waited, lockFile, exc, handle, outcome, chk, tampered,
          vin, vint, vout, vmut, cas, ingested, scan, index, fin, fout, reg>>

NoFile == <<"absent">>

\* no library call made yet
NoCall == <<"nocall">>

\* the registry index file absent and no ingest run started
NoRuns == <<"noruns">>

\* 10-scan_symbols.py not running: nothing listed, nothing collected
NoScan == [pc |-> "off", listed |-> FALSE, manifests |-> << >>, todo |-> << >>,
           symbols |-> << >>, errors |-> << >>, prev |-> NoFile, exit |-> 0]

\* the CAS directory is empty and the scanner is not running
ToolsIdle ==
    /\ cas = {} /\ ingested = {} /\ scan = NoScan /\ index = NoFile
    /\ fin = NoCall /\ fout = NoCall /\ reg = NoRuns

NoExc == <<"none", "">>

\* validation.compute_secure_hash: double SHA-256, hex digest of the second
compute_secure_hash(data) == Sha256(Sha256(data))

\* WALOperations._compute_entry_hash
compute_entry_hash(e) == compute_secure_hash(canon(e))

\* WALOperations._read_latest: GENESIS when the file is absent or empty
read_latest(content) == IF content \in {NoFile, EmptyStr} THEN GENESIS ELSE content

\* time.time() read by process p in second s: processes are numbered in the
\* order they start, so within a second a later process reads a later time
TimeNow(p, s) == s * NumProcs + (p - 1)

\* the largest clock reading
MaxTs == NumProcs * NumProcs - 1

\* int(entry["ts"]): the whole second a clock reading falls in
IntTs(ts) == ts \div NumProcs

\* entry_hash[:12] as its rank in string order among hex prefixes: one rank
\* per hashed frame, in an order unrelated to the order of the timestamps
HexPrefix(h) ==
    LET frame == h[2][2]
        x == 2 * DictGet(frame, "ts", 0) + (IF DictGet(frame, "apply", "") = "r1" THEN 0 ELSE 1)
        MaxX == 2 * MaxTs + 1
    IN  (MaxX * x) % (2 * MaxX + 1)

\* f"{timestamp}-{entry_hash[:12]}.wal.json", as the pair the string order sorts by
WalFileName(e, h) == <<IntTs(DictGet(e, "ts", 0)), HexPrefix(h)>>

\* string order of two file names
NameLess(a, b) == a[1] < b[1] \/ (a[1] = b[1] /\ a[2] < b[2])

\* sorted(self.wal_dir.glob("*.wal.json"))
RECURSIVE SortedFiles(_)
SortedFiles(files) ==
    IF files = {} THEN << >>
    ELSE LET first == CHOOSE f \in files :
                          \A g \in files \ {f} : NameLess(f.name, g.name)
         IN  <<first>> \o SortedFiles(files \ {first})

\* variant: the replay compares frame.prev only and trusts the stored root
RECURSIVE ReplayChain_prev_only(_, _)
ReplayChain_prev_only(files, prev_hash) ==
    IF files = << >> THEN <<Ok, prev_hash>>
    ELSE LET data == Head(files)
         IN  IF DictGet(data.frame, "prev", EmptyStr) # prev_hash
             THEN <<Raise("WALCorruptionError", <<"Chain break at", data.name>>), prev_hash>>
             ELSE ReplayChain_prev_only(Tail(files), data.root)

\* the replay loop of verify_chain: the outcome, and the last root when it passes
RECURSIVE ReplayChain(_, _)
ReplayChain(files, prev_hash) ==
    IF files = << >> THEN <<Ok, prev_hash>>
    ELSE LET data == Head(files)
         IN  IF DictGet(data.frame, "prev", EmptyStr) # prev_hash
             THEN <<Raise("WALCorruptionError", <<"Chain break at", data.name>>), prev_hash>>
             ELSE IF compute_entry_hash(data.frame) # data.root
             THEN <<Raise("WALCorruptionError", <<"Hash mismatch at", data.name>>), prev_hash>>
             ELSE ReplayChain(Tail(files), data.root)

\* WALOperations.verify_chain
verify_chain(files, latest_content) ==
    LET wal_files == SortedFiles(files)
        replay == ReplayChain(wal_files, GENESIS)
        last == read_latest(latest_content)
    IN  IF wal_files = << >> THEN Ok
        ELSE IF replay[1] # Ok THEN replay[1]
        ELSE IF last # replay[2] /\ last # GENESIS
        THEN Raise("WALCorruptionError", <<"LATEST mismatch", <<0, 0>>>>)
        ELSE Ok

\* variant: the scan compares frame.prev instead of root
chain_continuity_by_prev(files, prev_hash) ==
    \E f \in files : DictGet(f.frame, "prev", EmptyStr) = prev_hash

\* WALOperations._verify_chain_continuity: some entry file has this root
chain_continuity(files, prev_hash) == \E f \in files : f.root = prev_hash

\* variant: the comparison is reversed
TimedOut_reversed(elapsed, timeout) == elapsed < timeout

\* the timeout test of _acquire_lock: time.time() - start_time > timeout
TimedOut(elapsed, timeout) == elapsed > timeout

\* ------------------------------------------------------- the apply stage
\* 40-plan_solver.py: plan_id is the hash of the canonical payload
build_plan(payload) == <<<<"plan_id", PlanIdOf(canon(payload))>>>> \o payload

PlanA == build_plan(<<<<"routes_add", "r1">>, <<"routes_del", "[]">>>>)
PlanB == build_plan(<<<<"routes_add", "r2">>, <<"routes_del", "[]">>>>)
\* PlanA with its routes altered after it was built
PlanBad == DictSet(PlanA, "routes_add", "r2")
ApplyPlans == {PlanA, PlanB, PlanBad}
\* the plan files a run of the lock protocol alone is given
LockPlans == {PlanA, PlanBad}

\* the trusted-keys directory the apply stage runs with: no key installed
ApplyKeys == [k \in TRUSTED_KEY_IDS |-> NoKeyFile]

\* between a successful _acquire_lock and the return of _release_lock
LockedSection == {"locked", "check", "write", "tmp", "tmpwrite", "rename", "release"}
InLockedSection(p) == pc[p] \in LockedSection

\* each process is one run of 50-apply_plan.py
Init ==
    /\ wal = {}
    /\ latest = NoFile
    /\ latestTmp = NoFile
    /\ lockHolder = 0
    /\ cache = NoFile
    /\ cacheTmp = NoFile
    /\ now = 0
    /\ pc = [p \in Procs |-> "start"]
    /\ plan = [p \in Procs |-> << >>]
    /\ entry = [p \in Procs |-> << >>]
    /\ waited = [p \in Procs |-> 0]
    /\ lockFile = [p \in Procs |-> "closed"]
    /\ exc = [p \in Procs |-> NoExc]
    /\ handle = [p \in Procs |-> "none"]
    /\ outcome = [p \in Procs |-> Pending]
    /\ chk = Pending
    /\ tampered = FALSE
    /\ vin = << >>
    /\ vint = Pending
    /\ vout = Pending
    /\ vmut = FALSE
    /\ ToolsIdle

\* variant: the cache file is replaced as soon as the plan is loaded
ApplyPlanFrom_cache_first(p, plans) ==
    /\ pc[p] = "start"
    /\ \A q \in Procs : q < p => pc[q] # "start"
    /\ \E pl \in plans, verify_signature \in {"True", "False"},
          s \in {now} \cup (IF p > 1 THEN {now + 1} ELSE {}) :
         LET checked == verify_plan_complete(pl, verify_signature, FALSE, ApplyKeys, TRUE)
             wal_entry == <<<<"ts", TimeNow(p, s)>>,
                            <<"plan_id", DictGet(pl, "plan_id", EmptyStr)>>,
                            <<"apply", DictGet(pl, "routes_add", "[]")>>,
                            <<"remove", DictGet(pl, "routes_del", "[]")>>>>
         IN  /\ plan' = [plan EXCEPT ![p] = pl]
             /\ cache' = pl
             /\ IF checked # Ok
                THEN /\ outcome' = [outcome EXCEPT ![p] = checked]
                     /\ pc' = [pc EXCEPT ![p] = "done"]
                     /\ UNCHANGED <<entry, now>>
                ELSE /\ pc' = [pc EXCEPT ![p] = "acquire"]
                     /\ entry' = [entry EXCEPT ![p] = wal_entry]
                     /\ now' = s
                     /\ UNCHANGED outcome
    /\ UNCHANGED <<wal, latest, latestTmp, lockHolder, cacheTmp,
                   waited, lockFile, exc, handle>>
    /\ UNCHANGED <<vvars, avars, toolvars>>

\* apply_plan lines 43-74: load one of the plan files, verify it, build the
\* WAL entry
ApplyPlanFrom(p, plans) ==
    /\ pc[p] = "start"
    /\ \A q \in Procs : q < p => pc[q] # "start"
    /\ \E pl \in plans, verify_signature \in {"True", "False"},
          s \in {now} \cup (IF p > 1 THEN {now + 1} ELSE {}) :
         LET checked == verify_plan_complete(pl, verify_signature, FALSE, ApplyKeys, TRUE)
             wal_entry == <<<<"ts", TimeNow(p, s)>>,
                            <<"plan_id", DictGet(pl, "plan_id", EmptyStr)>>,
                            <<"apply", DictGet(pl, "routes_add", "[]")>>,
                            <<"remove", DictGet(pl, "routes_del", "[]")>>>>
         IN  /\ plan' = [plan EXCEPT ![p] = pl]
             /\ IF checked # Ok
                THEN /\ outcome' = [outcome EXCEPT ![p] = checked]
                     /\ pc' = [pc EXCEPT ![p] = "done"]
                     /\ UNCHANGED <<entry, now>>
                ELSE /\ pc' = [pc EXCEPT ![p] = "acquire"]
                     /\ entry' = [entry EXCEPT ![p] = wal_entry]
                     /\ now' = s
                     /\ UNCHANGED outcome
    /\ UNCHANGED <<wal, latest, latestTmp, lockHolder, cache, cacheTmp,
                   waited, lockFile, exc, handle>>
    /\ UNCHANGED <<vvars, avars, toolvars>>

ApplyPlan(p) == ApplyPlanFrom(p, ApplyPlans)
ApplyOnePlan(p) == ApplyPlanFrom(p, LockPlans)

\* one pass of the loop of _acquire_lock: flock(LOCK_EX | LOCK_NB), else time
\* out, else sleep.  On return only the descriptor number is kept; the file
\* object itself is left unreferenced.
AcquireLock(p) ==
    /\ pc[p] = "acquire"
    /\ IF lockHolder = 0
       THEN /\ lockHolder' = p
            /\ lockFile' = [lockFile EXCEPT ![p] = "open"]
            /\ pc' = [pc EXCEPT ![p] = "locked"]
            /\ waited' = [waited EXCEPT ![p] = 0]
            /\ UNCHANGED <<outcome, entry>>
       ELSE IF TimedOut(waited[p], LockTimeout)
       THEN /\ outcome' = [outcome EXCEPT ![p] = Raise("WALLockError", "Failed to acquire WAL lock")]
            /\ pc' = [pc EXCEPT ![p] = "done"]
            /\ entry' = [entry EXCEPT ![p] = << >>]
            /\ waited' = [waited EXCEPT ![p] = 0]
            /\ UNCHANGED <<lockHolder, lockFile>>
       ELSE /\ \E w \in (waited[p] + 1)..(LockTimeout + 1) :
                 waited' = [waited EXCEPT ![p] = w]
            /\ UNCHANGED <<lockHolder, lockFile, pc, outcome, entry>>
    /\ UNCHANGED <<wal, latest, latestTmp, cache, cacheTmp, now, plan, exc, handle>>
    /\ UNCHANGED <<vvars, avars, toolvars>>

\* the unreferenced lock file object is finalized: its descriptor is closed,
\* which drops the flock held through it
CollectLockFile(p) ==
    /\ InLockedSection(p)
    /\ lockFile[p] = "open"
    /\ lockFile' = [lockFile EXCEPT ![p] = "closed"]
    /\ lockHolder' = IF lockHolder = p THEN 0 ELSE lockHolder
    /\ UNCHANGED <<wal, latest, latestTmp, cache, cacheTmp, now,
                   pc, plan, entry, waited, exc, outcome, handle>>
    /\ UNCHANGED <<vvars, avars, toolvars>>

\* append_entry lines 158-166: read LATEST, set prev and ts
ReadLatest(p) ==
    /\ pc[p] = "locked"
    /\ LET prev_hash == read_latest(latest)
           e1 == DictSet(entry[p], "prev", prev_hash)
       IN  entry' = [entry EXCEPT ![p] = DictSet(e1, "ts", DictGet(e1, "ts", TimeNow(p, now)))]
    /\ pc' = [pc EXCEPT ![p] = "check"]
    /\ UNCHANGED <<wal, latest, latestTmp, lockHolder, cache, cacheTmp, now,
                   plan, waited, lockFile, exc, outcome, handle>>
    /\ UNCHANGED <<vvars, avars, toolvars>>

\* append_entry lines 168-170
VerifyContinuity(p) ==
    /\ pc[p] = "check"
    /\ LET prev_hash == DictGet(entry[p], "prev", GENESIS)
       IN  IF prev_hash # GENESIS /\ ~chain_continuity(wal, prev_hash)
           THEN /\ exc' = [exc EXCEPT ![p] = Raise("WALCorruptionError", "Broken WAL chain")]
                /\ pc' = [pc EXCEPT ![p] = "release"]
           ELSE /\ pc' = [pc EXCEPT ![p] = "write"]
                /\ UNCHANGED exc
    /\ UNCHANGED <<wal, latest, latestTmp, lockHolder, cache, cacheTmp, now,
                   plan, entry, waited, lockFile, outcome, handle>>
    /\ UNCHANGED <<vvars, avars, toolvars>>

\* variant: the entry file is not on disk when LATEST is updated
WriteEntry_deferred(p) ==
    /\ pc[p] = "write"
    /\ pc' = [pc EXCEPT ![p] = "tmp"]
    /\ UNCHANGED <<wal, latest, latestTmp, lockHolder, cache, cacheTmp, now,
                   plan, entry, waited, lockFile, exc, outcome, handle>>
    /\ UNCHANGED <<vvars, avars, toolvars>>

\* append_entry lines 172-181: write the entry file (replacing a file of that name)
WriteEntry(p) ==
    /\ pc[p] = "write"
    /\ LET entry_hash == compute_entry_hash(entry[p])
           name == WalFileName(entry[p], entry_hash)
       IN  wal' = {f \in wal : f.name # name}
                    \cup {[name |-> name, root |-> entry_hash, frame |-> entry[p]]}
    /\ pc' = [pc EXCEPT ![p] = "tmp"]
    /\ UNCHANGED <<latest, latestTmp, lockHolder, cache, cacheTmp, now,
                   plan, entry, waited, lockFile, exc, outcome, handle>>
    /\ UNCHANGED <<vvars, avars, toolvars>>

\* _write_latest line 128, first half: write_text opens LATEST.tmp for
\* writing, which creates the file or empties the one of that name
OpenLatestTmp(p) ==
    /\ pc[p] = "tmp"
    /\ latestTmp' = EmptyStr
    /\ handle' = [handle EXCEPT ![p] = "tmp"]
    /\ pc' = [pc EXCEPT ![p] = "tmpwrite"]
    /\ UNCHANGED <<wal, latest, lockHolder, cache, cacheTmp, now,
                   plan, entry, waited, lockFile, exc, outcome>>
    /\ UNCHANGED <<vvars, avars, toolvars>>

\* _write_latest line 128, second half: the hash is written in one write and
\* the descriptor closed; the bytes land in whatever file the descriptor
\* refers to by now
WriteLatestTmp(p) ==
    /\ pc[p] = "tmpwrite"
    /\ LET entry_hash == compute_entry_hash(entry[p])
       IN  /\ latestTmp' = IF handle[p] = "tmp" THEN entry_hash ELSE latestTmp
           /\ latest' = IF handle[p] = "latest" THEN entry_hash ELSE latest
    /\ handle' = [handle EXCEPT ![p] = "none"]
    /\ pc' = [pc EXCEPT ![p] = "rename"]
    /\ UNCHANGED <<wal, lockHolder, cache, cacheTmp, now,
                   plan, entry, waited, lockFile, exc, outcome>>
    /\ UNCHANGED <<vvars, avars, toolvars>>

\* what a rename of LATEST.tmp onto LATEST does to the descriptors open on them
Renamed(h) == IF h = "tmp" THEN "latest" ELSE IF h = "latest" THEN "gone" ELSE h

\* _write_latest line 129: temp_path.replace(latest_path); FileNotFoundError
\* when another process has already renamed the shared temp file away
RenameLatest(p) ==
    /\ pc[p] = "rename"
    /\ IF latestTmp = NoFile
       THEN /\ exc' = [exc EXCEPT ![p] = Raise("FileNotFoundError", "LATEST.tmp")]
            /\ UNCHANGED <<latest, latestTmp, handle>>
       ELSE /\ latest' = latestTmp
            /\ latestTmp' = NoFile
            /\ handle' = [q \in Procs |-> Renamed(handle[q])]
            /\ UNCHANGED exc
    /\ pc' = [pc EXCEPT ![p] = "release"]
    /\ UNCHANGED <<wal, lockHolder, cache, cacheTmp, now,
                   plan, entry, waited, lockFile, outcome>>
    /\ UNCHANGED <<vvars, avars, toolvars>>

\* variant: the lock is released after the try block, not in a finally clause
ReleaseLock_on_return_only(p) ==
    /\ pc[p] = "release"
    /\ lockHolder' = IF lockFile[p] = "open" /\ lockHolder = p /\ exc[p] = NoExc
                   THEN 0 ELSE lockHolder
    /\ lockFile' = [lockFile EXCEPT ![p] = "closed"]
    /\ IF exc[p] = NoExc
       THEN /\ pc' = [pc EXCEPT ![p] = "cachetmp"]
            /\ UNCHANGED outcome
       ELSE /\ pc' = [pc EXCEPT ![p] = "done"]
            /\ outcome' = [outcome EXCEPT ![p] = exc[p]]
    /\ entry' = [entry EXCEPT ![p] = << >>]
    /\ exc' = [exc EXCEPT ![p] = NoExc]
    /\ UNCHANGED <<wal, latest, latestTmp, cache, cacheTmp, now, plan, waited, handle>>
    /\ UNCHANGED <<vvars, avars, toolvars>>

\* append_entry's finally: _release_lock(fd), then return or re-raise.
\* flock(fd, LOCK_UN) on a closed descriptor fails and the error is only logged.
ReleaseLock(p) ==
    /\ pc[p] = "release"
    /\ lockHolder' = IF lockFile[p] = "open" /\ lockHolder = p THEN 0 ELSE lockHolder
    /\ lockFile' = [lockFile EXCEPT ![p] = "closed"]
    /\ IF exc[p] = NoExc
       THEN /\ pc' = [pc EXCEPT ![p] = "cachetmp"]
            /\ UNCHANGED outcome
       ELSE /\ pc' = [pc EXCEPT ![p] = "done"]
            /\ outcome' = [outcome EXCEPT ![p] = exc[p]]
    /\ entry' = [entry EXCEPT ![p] = << >>]
    /\ exc' = [exc EXCEPT ![p] = NoExc]
    /\ UNCHANGED <<wal, latest, latestTmp, cache, cacheTmp, now, plan, waited, handle>>
    /\ UNCHANGED <<vvars, avars, toolvars>>

\* apply_plan line 94: temp_cache.write_text(json.dumps(plan))
WriteCacheTmp(p) ==
    /\ pc[p] = "cachetmp"
    /\ cacheTmp' = plan[p]
    /\ pc' = [pc EXCEPT ![p] = "cacherename"]
    /\ UNCHANGED <<wal, latest, latestTmp, lockHolder, cache, now,
                   plan, entry, waited, lockFile, exc, outcome, handle>>
    /\ UNCHANGED <<vvars, avars, toolvars>>

\* apply_plan lines 95-105: temp_cache.replace(cache_file); a failure is only
\* logged as a warning and the call still returns the entry hash
RenameCache(p) ==
    /\ pc[p] = "cacherename"
    /\ IF cacheTmp = NoFile
       THEN UNCHANGED <<cache, cacheTmp>>
       ELSE /\ cache' = cacheTmp
            /\ cacheTmp' = NoFile
    /\ pc' = [pc EXCEPT ![p] = "done"]
    /\ outcome' = [outcome EXCEPT ![p] = Ok]
    /\ UNCHANGED <<wal, latest, latestTmp, lockHolder, now,
                   plan, entry, waited, lockFile, exc, handle>>
    /\ UNCHANGED <<vvars, avars, toolvars>>

\* 50-apply_plan.py main, lines 134-149: the exit code for the way apply_plan
\* ended
main_exit(out) ==
    IF out = Ok THEN 0
    ELSE IF out[1] = "ValidationError" THEN 1
    ELSE IF out[1] = "SignatureError" THEN 2
    ELSE 99

\* the steps of a call whose plan passed verification
AppendSteps ==
    \/ \E p \in Procs : AcquireLock(p)
    \/ \E p \in Procs : CollectLockFile(p)
    \/ \E p \in Procs : ReadLatest(p)
    \/ \E p \in Procs : VerifyContinuity(p)
    \/ \E p \in Procs : WriteEntry(p)
    \/ \E p \in Procs : OpenLatestTmp(p)
    \/ \E p \in Procs : WriteLatestTmp(p)
    \/ \E p \in Procs : RenameLatest(p)
    \/ \E p \in Procs : ReleaseLock(p)
    \/ \E p \in Procs : WriteCacheTmp(p)
    \/ \E p \in Procs : RenameCache(p)

Next ==
    \/ \E p \in Procs : ApplyPlan(p)
    \/ AppendSteps

\* the same processes given the plan files of LockPlans
NextLock ==
    \/ \E p \in Procs : ApplyOnePlan(p)
    \/ AppendSteps

Spec == Init /\ [][Next]_vars

\* ---------------------------------------- verification calls in isolation
Routes == {"r1", "r2"}
Payloads ==
    {<< >>, <<<<"created_at", "t1">>>>}
      \cup {<<<<"routes_add", r>>>> : r \in Routes}
      \cup {<<<<"routes_add", r>>, <<"created_at", "t1">>>> : r \in Routes}
      \cup {<<<<"created_at", "t1">>, <<"routes_add", r>>>> : r \in Routes}

\* a payload with no plan_id, its own plan_id, or the plan_id of another payload
WithPlanId(payload) ==
    {payload} \cup {<<<<"plan_id", PlanIdOf(canon(q))>>>> \o payload : q \in Payloads}

\* the sign blocks tried on a plan: empty, or alg/key_id/sig with a signature
\* by the installed key, by another key, or taken from another document
SignBlocks(base) ==
    {<< >>} \cup
    {<<<<"alg", a>>, <<"key_id", k>>, <<"sig", sg>>>> :
        a \in {"ed25519", "rsa"}, k \in {"dev", "evil", ""},
        sg \in {SigBy("pubA", canon(base)), SigBy("pubB", canon(base)),
                SigBy("pubA", canon(<< >>))}}

WithSign(base) == {base} \cup {Append(base, <<"sign", sb>>) : sb \in SignBlocks(base)}

PlanDocs == UNION {WithSign(b) : b \in UNION {WithPlanId(q) : q \in Payloads}}

KeyDirs ==
    {[k \in TRUSTED_KEY_IDS |-> IF k = "dev" THEN c ELSE NoKeyFile] :
        c \in {NoKeyFile, KeyFile("ed25519", "pubA"), KeyFile("rsa", "pubA"),
               BareKeyFile("pubA")}}

VerifyInputs ==
    [plan : PlanDocs, require_signature : {"True", "False", None},
     cfg_require : BOOLEAN, keys : KeyDirs, helper : BOOLEAN]

InitVerify ==
    /\ wal = {} /\ latest = NoFile /\ latestTmp = NoFile /\ lockHolder = 0
    /\ cache = NoFile /\ cacheTmp = NoFile /\ now = 0
    /\ pc = [p \in Procs |-> "start"]
    /\ plan = [p \in Procs |-> << >>]
    /\ entry = [p \in Procs |-> << >>]
    /\ waited = [p \in Procs |-> 0]
    /\ lockFile = [p \in Procs |-> "closed"]
    /\ exc = [p \in Procs |-> NoExc]
    /\ handle = [p \in Procs |-> "none"]
    /\ outcome = [p \in Procs |-> Pending]
    /\ chk = Pending
    /\ tampered = FALSE
    /\ vin \in VerifyInputs
    /\ vint = Pending
    /\ vout = Pending
    /\ vmut = FALSE
    /\ ToolsIdle

VerifyIntegrityCall ==
    /\ vint = Pending
    /\ vint' = verify_plan_integrity(vin.plan)
    /\ UNCHANGED <<vin, vout, vmut>>
    /\ UNCHANGED <<walvars, toolvars>>

VerifyCompleteCall ==
    /\ vout = Pending
    /\ vout' = verify_plan_complete(vin.plan, vin.require_signature,
                                    vin.cfg_require, vin.keys, vin.helper)
    /\ UNCHANGED <<vin, vint, vmut>>
    /\ UNCHANGED <<walvars, toolvars>>

\* the payload keys: every key but plan_id and sign
PayloadKeys == {"created_at", "routes_add", "routes_del"}
PayloadValues == {"t1", "t2", "r1", "r2"}

\* a plan that passed the integrity check gets one payload field changed,
\* added or removed (test_auth_bypass.py, test_forged_signature); plan_id and
\* sign stay as they were
TamperPlan ==
    /\ vint = Ok
    /\ ~vmut
    /\ \E k \in PayloadKeys :
         \/ /\ k \in DictKeys(vin.plan)
            /\ vin' = [vin EXCEPT !.plan = DictPop(vin.plan, k)]
         \/ \E v \in PayloadValues :
              /\ v # DictGet(vin.plan, k, "")
              /\ vin' = [vin EXCEPT !.plan = DictSet(vin.plan, k, v)]
    /\ vint' = Pending
    /\ vout' = Pending
    /\ vmut' = TRUE
    /\ UNCHANGED <<walvars, toolvars>>

NextVerify ==
    \/ VerifyIntegrityCall
    \/ VerifyCompleteCall
    \/ TamperPlan

SpecVerify == InitVerify /\ [][NextVerify]_vars

\* ------------------------------------------------ further specifications
\* the locked append path on the plan files of LockPlans
SpecLock == Init /\ [][NextLock]_vars

\* the locked append path with the retry loop of _acquire_lock kept running
SpecLive == Init /\ [][NextLock]_vars /\ \A p \in Procs : WF_vars(AcquireLock(p))

\* LATEST overwritten from outside the append path (unit/test_wal.py,
\* test_wal_recover_from_latest writes a value no entry has)
StrayHash == <<"previous_hash_123">>
TamperLatest ==
    /\ latest # StrayHash
    /\ latest' = StrayHash
    /\ UNCHANGED <<wal, latestTmp, lockHolder, cache, cacheTmp, now,
                   pc, plan, entry, waited, lockFile, exc, outcome, handle>>
    /\ UNCHANGED <<vvars, avars, toolvars>>

NextEnv == NextLock \/ TamperLatest
SpecEnv == Init /\ [][NextEnv]_vars
\* append_entry calls up to their return or raise: LATEST may name no entry
\* before the first append (test_wal_recover_from_latest), and the retry
\* loop of _acquire_lock takes its turns
TamperLatestEarly == wal = {} /\ TamperLatest
ApplyValidPlan(p) == ApplyPlanFrom(p, {PlanA})
NextEnvEarly ==
    \/ \E p \in Procs : ApplyValidPlan(p)
    \/ \E p \in Procs : AcquireLock(p)
    \/ \E p \in Procs : CollectLockFile(p)
    \/ \E p \in Procs : ReadLatest(p)
    \/ \E p \in Procs : VerifyContinuity(p)
    \/ \E p \in Procs : WriteEntry(p)
    \/ \E p \in Procs : OpenLatestTmp(p)
    \/ \E p \in Procs : WriteLatestTmp(p)
    \/ \E p \in Procs : RenameLatest(p)
    \/ \E p \in Procs : ReleaseLock(p)
    \/ TamperLatestEarly
SpecEnvLive == Init /\ [][NextEnvEarly]_vars /\ \A p \in Procs : WF_vars(AcquireLock(p))

\* an appender is killed somewhere between _acquire_lock and _release_lock:
\* its descriptors are closed, which drops a flock it still holds, and the
\* files stay as its last completed step left them
Killed == <<"killed", "">>
Crash(p) ==
    /\ InLockedSection(p)
    /\ pc' = [pc EXCEPT ![p] = "done"]
    /\ outcome' = [outcome EXCEPT ![p] = Killed]
    /\ lockHolder' = IF lockHolder = p THEN 0 ELSE lockHolder
    /\ lockFile' = [lockFile EXCEPT ![p] = "closed"]
    /\ handle' = [handle EXCEPT ![p] = "none"]
    /\ entry' = [entry EXCEPT ![p] = << >>]
    /\ exc' = [exc EXCEPT ![p] = NoExc]
    /\ UNCHANGED <<wal, latest, latestTmp, cache, cacheTmp, now, plan, waited>>
    /\ UNCHANGED <<vvars, avars, toolvars>>

NextCrash == NextLock \/ \E p \in Procs : Crash(p)
SpecCrash == Init /\ [][NextCrash]_vars

\* a verify_chain() call on the directory as the finished and killed runs
\* left it
VerifyChainCall ==
    /\ chk = Pending
    /\ \A p \in Procs : pc[p] = "done"
    /\ chk' = verify_chain(wal, latest)
    /\ UNCHANGED <<wal, latest, latestTmp, lockHolder, cache, cacheTmp, now,
                   pc, plan, entry, waited, lockFile, exc, handle, outcome, tampered>>
    /\ UNCHANGED <<vvars, toolvars>>

\* the values an outside edit puts into a field of a stored entry
TamperValue(k, old) ==
    IF k = "ts" THEN old + 1
    ELSE IF k = "prev" THEN StrayHash
    ELSE IF k = "plan_id" THEN PlanIdOf(<< >>)
    ELSE "rX"

\* one stored entry file is edited from outside after the runs have ended:
\* its root, or one field of its frame, gets another value
TamperEntry ==
    /\ chk = Pending
    /\ ~tampered
    /\ \A p \in Procs : pc[p] = "done"
    /\ \E f \in wal :
         \/ wal' = (wal \ {f}) \cup {[f EXCEPT !.root = StrayHash]}
         \/ \E k \in DictKeys(f.frame) :
              wal' = (wal \ {f}) \cup
                       {[f EXCEPT !.frame = DictSet(f.frame, k,
                                                   TamperValue(k, DictGet(f.frame, k, 0)))]}
    /\ tampered' = TRUE
    /\ UNCHANGED <<latest, latestTmp, lockHolder, cache, cacheTmp, now,
                   pc, plan, entry, waited, lockFile, exc, handle, outcome, chk>>
    /\ UNCHANGED <<vvars, toolvars>>

\* appends, kills and outside edits, closed by one verify_chain() call
NextAudit ==
    \/ NextCrash
    \/ TamperEntry
    \/ VerifyChainCall
SpecAudit == Init /\ [][NextAudit]_vars

\* ------------------------------------------ appends with locking disabled
\* the entry a caller hands to append_entry for a plan
wal_entry_for(pl, ts) ==
    <<<<"ts", ts>>,
      <<"plan_id", DictGet(pl, "plan_id", EmptyStr)>>,
      <<"apply", DictGet(pl, "routes_add", "[]")>>,
      <<"remove", DictGet(pl, "routes_del", "[]")>>>>

\* variant: prev is taken from the entry files instead of from LATEST
ReadLatestUnlocked_from_wal(p) ==
    /\ pc[p] = "start"
    /\ \A q \in Procs : q < p => pc[q] # "start"
    /\ \E pl \in {PlanA, PlanB}, s \in {now} \cup (IF p > 1 THEN {now + 1} ELSE {}) :
         LET prev_hash == IF wal = {} THEN GENESIS
                          ELSE (CHOOSE f \in wal : TRUE).root
         IN  /\ plan' = [plan EXCEPT ![p] = pl]
             /\ entry' = [entry EXCEPT ![p] =
                              DictSet(wal_entry_for(pl, TimeNow(p, s)), "prev", prev_hash)]
             /\ now' = s
    /\ pc' = [pc EXCEPT ![p] = "write"]
    /\ UNCHANGED <<wal, latest, latestTmp, lockHolder, cache, cacheTmp,
                   waited, lockFile, exc, outcome, handle>>
    /\ UNCHANGED <<vvars, avars, toolvars>>

\* append_entry with Config.ENABLE_WAL_LOCKING false, lines 150-152, and
\* _append_entry_unlocked lines 218-222: read LATEST, set prev and ts
ReadLatestUnlocked(p) ==
    /\ pc[p] = "start"
    /\ \A q \in Procs : q < p => pc[q] # "start"
    /\ \E pl \in {PlanA, PlanB}, s \in {now} \cup (IF p > 1 THEN {now + 1} ELSE {}) :
         LET prev_hash == read_latest(latest)
         IN  /\ plan' = [plan EXCEPT ![p] = pl]
             /\ entry' = [entry EXCEPT ![p] =
                              DictSet(wal_entry_for(pl, TimeNow(p, s)), "prev", prev_hash)]
             /\ now' = s
    /\ pc' = [pc EXCEPT ![p] = "write"]
    /\ UNCHANGED <<wal, latest, latestTmp, lockHolder, cache, cacheTmp,
                   waited, lockFile, exc, outcome, handle>>
    /\ UNCHANGED <<vvars, avars, toolvars>>

\* _append_entry_unlocked line 230: return, or an exception of _write_latest
\* leaves the call
ReturnUnlocked(p) ==
    /\ pc[p] = "release"
    /\ pc' = [pc EXCEPT ![p] = "done"]
    /\ outcome' = [outcome EXCEPT ![p] = IF exc[p] = NoExc THEN Ok ELSE exc[p]]
    /\ entry' = [entry EXCEPT ![p] = << >>]
    /\ exc' = [exc EXCEPT ![p] = NoExc]
    /\ UNCHANGED <<wal, latest, latestTmp, lockHolder, cache, cacheTmp, now,
                   plan, waited, lockFile, handle>>
    /\ UNCHANGED <<vvars, avars, toolvars>>

NextUnlocked ==
    \/ \E p \in Procs : ReadLatestUnlocked(p)
    \/ \E p \in Procs : WriteEntry(p)
    \/ \E p \in Procs : OpenLatestTmp(p)
    \/ \E p \in Procs : WriteLatestTmp(p)
    \/ \E p \in Procs : RenameLatest(p)
    \/ \E p \in Procs : ReturnUnlocked(p)

SpecUnlocked == Init /\ [][NextUnlocked]_vars

\* ------------------------------------------------------ the registry index
\* cas_ingest.py, agents_ingest.py and skills_ingest.py run as separate
\* processes on one registry/index.json.  The index is the set of its
\* <<section, key, hash>> entries; a file is absent, truncated (opened for
\* writing, nothing written yet) or holds an index.
IndexFile(entries) == <<"index", entries>>
Truncated == <<"truncated">>
IngestRuns == {1, 2}
IngestTools == {"cas_ingest", "agents_ingest", "skills_ingest"}
IngestKeys == {"k1", "k2"}
IngestHashes == {"h1", "h2"}

\* idx["agents"] for cas_ingest and agents_ingest, idx["skills"] for skills_ingest
SectionOf(tool) == IF tool = "skills_ingest" THEN "skills" ELSE "agents"

\* the index a run starts from: safe_json_load of the file, {} when the file
\* is absent or is not valid JSON
load_index(file) == IF file[1] = "index" THEN file[2] ELSE {}

\* idx[section][key] = hash
index_put(entries, section, key, hash) ==
    {e \in entries : ~(e[1] = section /\ e[2] = key)} \cup {<<section, key, hash>>}

Reg == reg[2]
RunEntry(r) == <<SectionOf(Reg.run[r].tool), Reg.run[r].key, Reg.run[r].hash>>

\* the registry before the runs: no index, or an index with one entry and
\* its blob (an earlier ingest)
RegistryStart ==
    /\ reg = NoRuns
    /\ \E before \in {{}, {<<"agents", "k0", "h0">>}} :
         reg' = <<"runs",
                  [file |-> IF before = {} THEN NoFile ELSE IndexFile(before),
                   tmp |-> NoFile,
                   blobs |-> {e[3] : e \in before},
                   before |-> before,
                   run |-> [r \in IngestRuns |->
                              [pc |-> "start", tool |-> "", key |-> "", hash |-> "",
                               idx |-> {}, fd |-> "none"]]]>>
    /\ UNCHANGED <<fin, fout>>
    /\ UNCHANGED <<walvars, vvars, cas, ingested, scan, index>>

\* main() up to the file loop; agents_ingest and skills_ingest load the
\* index here (lines 101-115), cas_ingest loads it in update_index
RunStart(r) ==
    /\ reg[1] = "runs"
    /\ Reg.run[r].pc = "start"
    /\ \A q \in IngestRuns : q < r => Reg.run[q].pc # "start"
    /\ \E tool \in IngestTools, key \in IngestKeys, hash \in IngestHashes :
         reg' = <<"runs",
                  [Reg EXCEPT !.run[r] =
                      [pc |-> "ingest", tool |-> tool, key |-> key, hash |-> hash,
                       idx |-> IF tool = "cas_ingest" THEN {} ELSE load_index(Reg.file),
                       fd |-> "none"]]>>
    /\ UNCHANGED <<fin, fout>>
    /\ UNCHANGED <<walvars, vvars, cas, ingested, scan, index>>

\* one file ingested: the blob is written to the CAS directory and the
\* key is noted (agents[key] in cas_ingest, idx[section][key] in the others)
RunIngest(r) ==
    /\ reg[1] = "runs"
    /\ Reg.run[r].pc = "ingest"
    /\ LET run == Reg.run[r]
       IN  reg' = <<"runs",
                    [Reg EXCEPT
                       !.blobs = @ \cup {run.hash},
                       !.run[r].pc = IF run.tool = "cas_ingest" THEN "load" ELSE "opentmp",
                       !.run[r].idx = IF run.tool = "cas_ingest" THEN @
                                      ELSE index_put(@, SectionOf(run.tool), run.key, run.hash)]>>
    /\ UNCHANGED <<fin, fout>>
    /\ UNCHANGED <<walvars, vvars, cas, ingested, scan, index>>

\* update_index lines 115-129: load the index and add the ingested keys
RunLoad(r) ==
    /\ reg[1] = "runs"
    /\ Reg.run[r].pc = "load"
    /\ LET run == Reg.run[r]
       IN  reg' = <<"runs",
                    [Reg EXCEPT
                       !.run[r].pc = "opentmp",
                       !.run[r].idx = index_put(load_index(Reg.file), "agents",
                                                run.key, run.hash)]>>
    /\ UNCHANGED <<fin, fout>>
    /\ UNCHANGED <<walvars, vvars, cas, ingested, scan, index>>

\* temp_index.write_text, the open: index.tmp is created or truncated
RunOpenTmp(r) ==
    /\ reg[1] = "runs"
    /\ Reg.run[r].pc = "opentmp"
    /\ reg' = <<"runs",
                [Reg EXCEPT !.tmp = Truncated,
                            !.run[r].pc = "write",
                            !.run[r].fd = "tmp"]>>
    /\ UNCHANGED <<fin, fout>>
    /\ UNCHANGED <<walvars, vvars, cas, ingested, scan, index>>

\* temp_index.write_text, the write and close: the bytes go to the file the
\* handle was opened on, whatever name that file has by now
RunWriteTmp(r) ==
    /\ reg[1] = "runs"
    /\ Reg.run[r].pc = "write"
    /\ LET run == Reg.run[r]
       IN  reg' = <<"runs",
                    [Reg EXCEPT
                       !.tmp = IF run.fd = "tmp" THEN IndexFile(run.idx) ELSE @,
                       !.file = IF run.fd = "index" THEN IndexFile(run.idx) ELSE @,
                       !.run[r].pc = "replace",
                       !.run[r].fd = "none"]>>
    /\ UNCHANGED <<fin, fout>>
    /\ UNCHANGED <<walvars, vvars, cas, ingested, scan, index>>

\* temp_index.replace(INDEX_FILE); FileNotFoundError when another run has
\* moved index.tmp away
RunReplace(r) ==
    /\ reg[1] = "runs"
    /\ Reg.run[r].pc = "replace"
    /\ IF Reg.tmp = NoFile
       THEN reg' = <<"runs", [Reg EXCEPT !.run[r].pc = "failed"]>>
       ELSE reg' = <<"runs",
                     [Reg EXCEPT
                        !.file = Reg.tmp,
                        !.tmp = NoFile,
                        !.run = [q \in IngestRuns |->
                                   IF q = r THEN [@[q] EXCEPT !.pc = "done"]
                                   ELSE IF @[q].fd = "tmp" THEN [@[q] EXCEPT !.fd = "index"]
                                   ELSE IF @[q].fd = "index" THEN [@[q] EXCEPT !.fd = "unlinked"]
                                   ELSE @[q]]]>>
    /\ UNCHANGED <<fin, fout>>
    /\ UNCHANGED <<walvars, vvars, cas, ingested, scan, index>>

NextRegistry ==
    \/ RegistryStart
    \/ \E r \in IngestRuns : RunStart(r)
    \/ \E r \in IngestRuns : RunIngest(r)
    \/ \E r \in IngestRuns : RunLoad(r)
    \/ \E r \in IngestRuns : RunOpenTmp(r)
    \/ \E r \in IngestRuns : RunWriteTmp(r)
    \/ \E r \in IngestRuns : RunReplace(r)

SpecRegistry == Init /\ [][NextRegistry]_vars

\* ------------------------------------------------------- the plan builder
\* 40-plan_solver.py.  An address is a sequence of characters; a route is
\* <<from, name>> and stands for {"from": from, "to": name + "@1"}; the
\* symbol table is the sequence of its keys in insertion order, NoneKey
\* being the key of a manifest whose symbol has no saddr.
NoneKey == <<"None">>

\* k.startswith(prefix)
startswith(k, prefix) ==
    /\ Len(prefix) <= Len(k)
    /\ SubSeq(k, 1, Len(prefix)) = prefix

\* line 29: any(k for k in symbols if k.startswith(to.split("@")[0])); the
\* generator yields the matching keys and any() stops at the first truthy
\* one; None has no startswith
RECURSIVE any_symbol(_, _)
any_symbol(symbols, prefix) ==
    IF symbols = << >> THEN "False"
    ELSE IF Head(symbols) = NoneKey THEN "AttributeError"
    ELSE IF startswith(Head(symbols), prefix) /\ Head(symbols) # << >> THEN "True"
    ELSE any_symbol(Tail(symbols), prefix)

\* lines 26-31: one routes_add element and one order element per route
lane_of(symbols, r) == IF any_symbol(symbols, r[2]) = "True" THEN "shm" ELSE "uds"
routes_add_of(symbols, routes) ==
    [i \in DOMAIN routes |-> <<"route", routes[i][1], routes[i][2], lane_of(symbols, routes[i])>>]
order_of(routes) == [i \in DOMAIN routes |-> <<routes[i][1], "->", routes[i][2]>>]

\* lines 19-25: the plan before its plan_id is filled in
plan_body(routes, symbols, created_at) ==
    <<<<"plan_id", EmptyStr>>,
      <<"created_at", created_at>>,
      <<"routes_add", routes_add_of(symbols, routes)>>,
      <<"routes_del", << >> >>,
      <<"order", order_of(routes)>>>>

\* variant: the empty plan_id stays in the hashed payload
plan_solver_hashes_plan_id(routes, symbols, created_at) ==
    IF \E i \in DOMAIN routes : any_symbol(symbols, routes[i][2]) = "AttributeError"
    THEN <<"raised", "AttributeError">>
    ELSE LET body == plan_body(routes, symbols, created_at)
             payload == DictPop(body, "sign")
         IN  <<"built", DictSet(body, "plan_id", PlanIdOf(canon(payload)))>>

\* lines 12-41: the document written to plans/<hash>.plan.json, or the
\* exception that ends the script
plan_solver(routes, symbols, created_at) ==
    IF \E i \in DOMAIN routes : any_symbol(symbols, routes[i][2]) = "AttributeError"
    THEN <<"raised", "AttributeError">>
    ELSE LET body == plan_body(routes, symbols, created_at)
             payload == DictPop(DictPop(body, "plan_id"), "sign")
         IN  <<"built", DictSet(body, "plan_id", PlanIdOf(canon(payload)))>>

MaxRoutes == 2
ToNames == {<< >>, <<"a">>, <<"b">>}
RouteLists ==
    UNION {[1..n -> {<<"x", t>> : t \in ToNames}] : n \in 0..MaxRoutes}
SymbolKeys == {NoneKey, << >>, <<"a">>, <<"a", "b">>}
SymbolTables ==
    {<< >>} \cup {<<k>> : k \in SymbolKeys}
            \cup {kl \in SymbolKeys \X SymbolKeys : kl[1] # kl[2]}
BuiltSigns == {<<<<"alg", "ed25519">>, <<"key_id", "dev">>, <<"sig", sg>>>> : sg \in {"s1", "s2"}}

\* one run of 40-plan_solver.py on a routes.json and a manifests directory
RunPlanSolver ==
    /\ fin = NoCall
    /\ \E routes \in RouteLists, symbols \in SymbolTables :
         fin' = plan_solver(routes, symbols, "t1")
    /\ UNCHANGED <<fout, reg>>
    /\ UNCHANGED <<walvars, vvars, cas, ingested, scan, index>>

\* a sign block is added to the built plan, or the one it has is replaced
SetSign ==
    /\ fin[1] = "built"
    /\ \E sb \in BuiltSigns :
         /\ DictGet(fin[2], "sign", << >>) # sb
         /\ fin' = <<"built", DictSet(fin[2], "sign", sb)>>
    /\ fout' = NoCall
    /\ UNCHANGED reg
    /\ UNCHANGED <<walvars, vvars, cas, ingested, scan, index>>

\* the sign block is removed
RemoveSign ==
    /\ fin[1] = "built"
    /\ "sign" \in DictKeys(fin[2])
    /\ fin' = <<"built", DictPop(fin[2], "sign")>>
    /\ fout' = NoCall
    /\ UNCHANGED reg
    /\ UNCHANGED <<walvars, vvars, cas, ingested, scan, index>>

\* authentication.verify_plan_integrity on the document
VerifyBuilt ==
    /\ fin[1] = "built"
    /\ fout = NoCall
    /\ fout' = <<"integrity", verify_plan_integrity(fin[2])>>
    /\ UNCHANGED <<fin, reg>>
    /\ UNCHANGED <<walvars, vvars, cas, ingested, scan, index>>

NextBuild ==
    \/ RunPlanSolver
    \/ SetSign
    \/ RemoveSign
    \/ VerifyBuilt

SpecBuild == Init /\ [][NextBuild]_vars

\* --------------------------------------------------------- path sandboxing
\* validation.validate_path.  A path string is a sequence of tokens: "/" is
\* the separator, ".." two dots, "NUL" a null character, "long" a run of 5000
\* letters, every other token a piece of a name.  A resolved path is the
\* sequence of its components, each a sequence of tokens.
MAX_PATH_LENGTH == 4096
TokenLen(t) ==
    CASE t = "long" -> 5000
      [] t = "-evil" -> 5
      [] t \in {"base", "link"} -> 4
      [] t \in {"etc", "sub"} -> 3
      [] t = ".." -> 2
      [] OTHER -> 1

\* len(path_str)
RECURSIVE StrLen(_)
StrLen(str) == IF str = << >> THEN 0 ELSE TokenLen(Head(str)) + StrLen(Tail(str))

\* Path(path).is_absolute()
is_absolute(str) == str # << >> /\ Head(str) = "/"

\* Path(path).parts without the root: the runs of tokens between separators
RECURSIVE PathParts(_)
PathParts(str) ==
    IF str = << >> THEN << >>
    ELSE IF Head(str) = "/" THEN PathParts(Tail(str))
    ELSE IF \E i \in DOMAIN str : str[i] = "/"
    THEN LET i == CHOOSE j \in DOMAIN str :
                      str[j] = "/" /\ \A k \in 1..(j - 1) : str[k] # "/"
         IN  <<SubSeq(str, 1, i - 1)>> \o PathParts(SubSeq(str, i + 1, Len(str)))
    ELSE <<str>>

\* str() of an absolute path given by its components
RECURSIVE PathStr(_)
PathStr(parts) ==
    IF parts = << >> THEN << >> ELSE <<"/">> \o Head(parts) \o PathStr(Tail(parts))

\* the file system: /base/link is a symbolic link to /etc
SymlinkTarget(parts) ==
    IF parts = <<<<"base">>, <<"link">>>> THEN <<<<"etc">>>> ELSE parts

\* Path.resolve() of an absolute path: components are taken one by one,
\* ".." steps up, links are followed; ValueError for a null character
NullByte == <<"ValueError", "embedded null byte">>
RECURSIVE resolve_from(_, _)
resolve_from(done, parts) ==
    IF parts = << >> THEN done
    ELSE IF \E i \in DOMAIN Head(parts) : Head(parts)[i] = "NUL" THEN NullByte
    ELSE IF Head(parts) = <<"..">>
    THEN resolve_from(IF done = << >> THEN done ELSE SubSeq(done, 1, Len(done) - 1),
                      Tail(parts))
    ELSE resolve_from(SymlinkTarget(Append(done, Head(parts))), Tail(parts))
resolve(parts) == resolve_from(<< >>, parts)

\* abs_path.relative_to(abs_base) succeeds
relative_to(abs_path, abs_base) ==
    /\ Len(abs_base) <= Len(abs_path)
    /\ SubSeq(abs_path, 1, Len(abs_base)) = abs_base

\* validate_path(path, base_dir): <<"return", abs_path>> or the exception
validate_path(path_str, base_str) ==
    LET base_parts == PathParts(base_str)
        abs_base == resolve(base_parts)
        joined == IF is_absolute(path_str) THEN PathParts(path_str)
                  ELSE base_parts \o PathParts(path_str)
        abs_path == resolve(joined)
    IN  IF StrLen(path_str) > MAX_PATH_LENGTH
        THEN Raise("ValidationError", "Path too long")
        ELSE IF \E i \in DOMAIN path_str : path_str[i] = ".."
        THEN Raise("ValidationError", "Path traversal detected (..)")
        ELSE IF is_absolute(path_str) /\ ~startswith(path_str, PathStr(abs_base))
        THEN Raise("ValidationError", "Absolute path outside base directory")
        ELSE IF abs_path = NullByte
        THEN NullByte
        ELSE IF ~relative_to(abs_path, abs_base)
        THEN Raise("ValidationError", "Path traversal detected")
        ELSE <<"return", abs_path>>

RelativePaths ==
    {<< >>, <<"a">>, <<"sub", "/", "a">>, <<"..", "/", "a">>, <<"a", "..", "b">>,
     <<"sub", "/", "..", "/", "..", "/", "etc">>, <<"link", "/", "a">>,
     <<"a", "NUL", "b">>, <<"long">>}
PathPrefixes ==
    {<<"/", "base">>, <<"/", "base", "-evil">>, <<"/", "etc">>, <<"/", "base", "/", "sub">>}
PathStrings ==
    RelativePaths \cup PathPrefixes
        \cup {pre \o <<"/">> \o rel : pre \in PathPrefixes, rel \in RelativePaths \ {<< >>}}
BaseDirs == {<<"/", "base">>, <<"/", "base", "/", "sub">>, <<"/", "base", "/", "link">>}

\* a caller (ingest_agent, apply_plan, verify_plan) hands a path to
\* validate_path
ValidateCall ==
    /\ fin = NoCall
    /\ \E path \in PathStrings, base_dir \in BaseDirs :
         /\ fin' = <<"validate", path, base_dir>>
         /\ fout' = validate_path(path, base_dir)
    /\ UNCHANGED reg
    /\ UNCHANGED <<walvars, vvars, cas, ingested, scan, index>>

\* the caller reads or writes the file at the path that was returned
OpenValidated ==
    /\ fin[1] = "validate"
    /\ fout[1] = "return"
    /\ fout' = <<"opened", fout[2]>>
    /\ UNCHANGED <<fin, reg>>
    /\ UNCHANGED <<walvars, vvars, cas, ingested, scan, index>>

\* the exception leaves the caller, no file is touched
RaiseToCaller ==
    /\ fin[1] = "validate"
    /\ fout[1] \in {"ValidationError", "ValueError"}
    /\ fout' = <<"raised", fout[1]>>
    /\ UNCHANGED <<fin, reg>>
    /\ UNCHANGED <<walvars, vvars, cas, ingested, scan, index>>

NextPath ==
    \/ ValidateCall
    \/ OpenValidated
    \/ RaiseToCaller

SpecPath == Init /\ [][NextPath]_vars

\* ------------------------------------------------------------------- RBAC
\* src/mcp/auth/rbac.py.  A resource is a sequence of dotted name tokens; a
\* permission's resource is "*", a resource, or a resource prefix followed
\* by "*".  The manager's roles are in fin, a running call in fout.
\* what stands for None where get_role finds no role
NoRole == [permissions |-> << >>, inherits |-> << >>]
Perm(resource, operations) == [resource |-> resource, operations |-> operations]

\* Permission.allows
allows(perm, operation) == operation \in perm.operations \/ "*" \in perm.operations

\* Role.has_permission
has_permission(role, resource, operation) ==
    \E i \in DOMAIN role.permissions :
        LET perm == role.permissions[i]
            n == Len(perm.resource)
        IN  /\ allows(perm, operation)
            /\ \/ perm.resource = <<"*">>
               \/ perm.resource = resource
               \/ /\ n >= 2
                  /\ perm.resource[n] = "*"
                  /\ startswith(resource, SubSeq(perm.resource, 1, n - 1))

\* _init_default_roles: admin has everything, developer some tool families
\* (readonly and operator have the same shape as developer)
DefaultRoles ==
    [name \in {"admin", "developer"} |->
        IF name = "admin"
        THEN [permissions |-> <<Perm(<<"*">>, {"*"})>>, inherits |-> << >>]
        ELSE [permissions |-> <<Perm(<<"mcp", "task", "*">>, {"execute", "read", "write"}),
                                Perm(<<"mcp", "monitoring", "*">>, {"read"})>>,
              inherits |-> << >>]]

CustomNames == {"a", "b"}
CustomRoles ==
    [permissions : {<< >>, <<Perm(<<"mcp", "memory", "usage">>, {"read"})>>},
     inherits : {<< >>, <<"a">>, <<"b">>, <<"ghost">>, <<"developer">>,
                 <<"ghost", "b">>, <<"b", "a">>}]
QueryRoles == {"a", "b", "admin", "ghost"}
QueryResources == {<<"mcp", "task", "run">>, <<"mcp", "memory", "usage">>}
QueryOperations == {"read", "write"}

\* the depth at which the interpreter stops a recursion with RecursionError
\* (sys.getrecursionlimit(), 1000 frames on CPython)
MaxDepth == 4

RolesOf(m) == m[2]
\* RBACManager.get_role
get_role(roles, role_name) ==
    IF role_name \in DOMAIN roles THEN roles[role_name] ELSE NoRole

\* RBACManager(): the default roles
NewManager ==
    /\ fin = NoCall
    /\ fin' = <<"roles", DefaultRoles>>
    /\ UNCHANGED <<fout, reg>>
    /\ UNCHANGED <<walvars, vvars, cas, ingested, scan, index>>

\* self.roles[role.name] = role
put_role(roles, name, role) ==
    [n \in DOMAIN roles \cup {name} |-> IF n = name THEN role ELSE roles[n]]

\* add_role: the role is stored, nothing is checked
AddRole ==
    /\ fin[1] = "roles"
    /\ fout[1] # "running"
    /\ \E name \in CustomNames, role \in CustomRoles :
         /\ name \in DOMAIN RolesOf(fin) => RolesOf(fin)[name] # role
         /\ fin' = <<"roles", put_role(RolesOf(fin), name, role)>>
    /\ fout' = NoCall
    /\ UNCHANGED reg
    /\ UNCHANGED <<walvars, vvars, cas, ingested, scan, index>>

\* load_permissions: the roles of the file are added one after another; an
\* entry without a name ends the load with RBACError, the roles before it
\* stay
LoadPermissions ==
    /\ fin[1] = "roles"
    /\ fout[1] # "running"
    /\ \E ra \in CustomRoles, rb \in CustomRoles, named \in BOOLEAN :
         LET first == put_role(RolesOf(fin), "a", ra)
         IN  IF named
             THEN /\ fin' = <<"roles", put_role(first, "b", rb)>>
                  /\ fout' = <<"loaded", "None">>
             ELSE /\ fin' = <<"roles", first>>
                  /\ fout' = <<"raised", "RBACError">>
    /\ UNCHANGED reg
    /\ UNCHANGED <<walvars, vvars, cas, ingested, scan, index>>

\* a call of check_permission or get_allowed_resources: the frames of the
\* recursion, the innermost last; i is the parent the frame is at (0 before
\* the role's own permissions are looked at), acc the resources collected
Frame(role_name) == [role |-> role_name, i |-> 0, acc |-> {}]
Call(kind, resource, operation, stack) ==
    <<"running", kind, resource, operation, stack>>

StartCheckPermission ==
    /\ fin[1] = "roles"
    /\ fout[1] # "running"
    /\ \E role_name \in QueryRoles, resource \in QueryResources,
          operation \in QueryOperations :
         fout' = Call("check_permission", resource, operation, <<Frame(role_name)>>)
    /\ UNCHANGED <<fin, reg>>
    /\ UNCHANGED <<walvars, vvars, cas, ingested, scan, index>>

StartGetAllowedResources ==
    /\ fin[1] = "roles"
    /\ fout[1] # "running"
    /\ \E role_name \in QueryRoles, operation \in QueryOperations :
         fout' = Call("get_allowed_resources", << >>, operation, <<Frame(role_name)>>)
    /\ UNCHANGED <<fin, reg>>
    /\ UNCHANGED <<walvars, vvars, cas, ingested, scan, index>>

\* the innermost frame returns False (check_permission) or its resources
\* (get_allowed_resources) to the frame below it
return_up(call, value) ==
    LET stack == call[5]
        n == Len(stack)
    IN  IF n = 1
        THEN <<"returned", call[2], value>>
        ELSE <<"running", call[2], call[3], call[4],
               [k \in 1..(n - 1) |->
                   IF k = n - 1
                   THEN [stack[k] EXCEPT !.i = @ + 1, !.acc = @ \cup value]
                   ELSE stack[k]]>>

\* the innermost frame calls itself for the parent it is at
recurse(call, parent_role_name) ==
    IF Len(call[5]) >= MaxDepth
    THEN <<"raised", "RecursionError">>
    ELSE <<"running", call[2], call[3], call[4], Append(call[5], Frame(parent_role_name))>>

\* check_permission returns False from its innermost frame
return_false(call) ==
    IF Len(call[5]) = 1 THEN <<"returned", call[2], "False">> ELSE return_up(call, {})

\* one step of check_permission in its innermost frame (lines 266-280)
check_permission_step(roles, call) ==
    LET stack == call[5]
        n == Len(stack)
        top == stack[n]
        role == get_role(roles, top.role)
    IN  IF top.i = 0
        THEN IF top.role \notin DOMAIN roles THEN return_false(call)
             ELSE IF has_permission(role, call[3], call[4])
             THEN <<"returned", call[2], "True">>
             ELSE <<"running", call[2], call[3], call[4],
                    [stack EXCEPT ![n].i = 1]>>
        ELSE IF top.i > Len(role.inherits) THEN return_false(call)
        ELSE recurse(call, role.inherits[top.i])

\* one step of get_allowed_resources in its innermost frame (lines 297-313)
get_allowed_resources_step(roles, call) ==
    LET stack == call[5]
        n == Len(stack)
        top == stack[n]
        role == get_role(roles, top.role)
    IN  IF top.i = 0
        THEN IF top.role \notin DOMAIN roles THEN return_up(call, {})
             ELSE <<"running", call[2], call[3], call[4],
                    [stack EXCEPT ![n].i = 1,
                                  ![n].acc = {role.permissions[k].resource :
                                                k \in {j \in DOMAIN role.permissions :
                                                         allows(role.permissions[j], call[4])}}]>>
        ELSE IF top.i > Len(role.inherits) THEN return_up(call, top.acc)
        ELSE recurse(call, role.inherits[top.i])

CheckPermissionStep ==
    /\ fin[1] = "roles"
    /\ fout[1] = "running"
    /\ fout[2] = "check_permission"
    /\ fout' = check_permission_step(RolesOf(fin), fout)
    /\ UNCHANGED <<fin, reg>>
    /\ UNCHANGED <<walvars, vvars, cas, ingested, scan, index>>

GetAllowedResourcesStep ==
    /\ fin[1] = "roles"
    /\ fout[1] = "running"
    /\ fout[2] = "get_allowed_resources"
    /\ fout' = get_allowed_resources_step(RolesOf(fin), fout)
    /\ UNCHANGED <<fin, reg>>
    /\ UNCHANGED <<walvars, vvars, cas, ingested, scan, index>>

NextRbac ==
    \/ NewManager
    \/ AddRole
    \/ LoadPermissions
    \/ StartCheckPermission
    \/ StartGetAllowedResources
    \/ CheckPermissionStep
    \/ GetAllowedResourcesStep

SpecRbac == Init /\ [][NextRbac]_vars

\* --------------------------------------------------------- CAS ingestion
\* JSON values of an agent file: a string, or an object as its pairs in file order
JStr(s) == <<"str", s>>
JObj(pairs) == <<"obj", pairs>>

\* dict.get(k, default) on a loaded JSON object
JGet(obj, k, default) == DictGet(obj[2], k, default)

\* cas_ingest.sha256_bytes
sha256_bytes(b) == Sha256(b)

\* variant: only the outermost object has its keys sorted
normalize_top_only(obj) ==
    IF obj[1] = "obj"
    THEN LET RECURSIVE TopSort(_)
             TopSort(pairs) ==
                 IF pairs = << >> THEN << >>
                 ELSE SortedInsert(TopSort(Tail(pairs)), Head(pairs))
         IN  JObj(TopSort(obj[2]))
    ELSE obj

\* cas_ingest.normalize: json.dumps(obj, separators=(',', ':'), sort_keys=True),
\* which sorts the keys of every object, nested ones included
RECURSIVE normalize(_)
normalize(obj) ==
    IF obj[1] = "obj"
    THEN LET RECURSIVE SortPairs(_)
             SortPairs(pairs) ==
                 IF pairs = << >> THEN << >>
                 ELSE SortedInsert(SortPairs(Tail(pairs)),
                                   <<Head(pairs)[1], normalize(Head(pairs)[2])>>)
         IN  JObj(SortPairs(obj[2]))
    ELSE obj

\* f"{hash_value}.json"
BlobName(hash_value) == <<hash_value, ".json">>

\* cas_ingest.ingest_agent on the loaded content of an agent file: the error it
\* raises, or the agent key with the blob it writes
ingest_agent(obj) ==
    IF "id" \notin DictKeys(obj[2])
    THEN [result |-> Raise("ValidationError", "Agent missing 'id' field")]
    ELSE LET agent_id == JGet(obj, "id", JStr(""))
             agent_version == JGet(obj, "version", JStr("1"))
             normalized == normalize(obj)
             hash_value == sha256_bytes(normalized)
         IN  IF agent_id = JStr("")
             THEN [result |-> Raise("ValidationError", "Invalid agent ID")]
             ELSE [result |-> Ok,
                   key |-> <<agent_id[2], "@", agent_version[2]>>,
                   name |-> BlobName(hash_value),
                   bytes |-> normalized]

\* the contents agent files are given with, each as the set of its pairs
AgentDocs ==
    { JObj({<<"id", JStr("a")>>,
            <<"meta", JObj({<<"x", JStr("1")>>, <<"y", JStr("2")>>})>>}),
      JObj({<<"id", JStr("a")>>, <<"version", JStr("2")>>}),
      JObj({<<"id", JStr("b")>>, <<"version", JStr("2")>>}),
      JObj({<<"id", JStr("")>>, <<"version", JStr("2")>>}),
      JObj({<<"version", JStr("2")>>}) }

\* every way of writing a content down: each object's pairs in every order
RECURSIVE Arrangements(_)
Arrangements(v) ==
    IF v[1] = "obj"
    THEN LET written == UNION {{<<kv[1], a>> : a \in Arrangements(kv[2])} : kv \in v[2]}
             n == Cardinality(v[2])
         IN  {JObj(s) : s \in {t \in [1..n -> written] :
                                  \A i, j \in 1..n : i # j => t[i][1] # t[j][1]}}
    ELSE {v}

\* the agent files: every content in every key order
AgentFiles == UNION {Arrangements(d) : d \in AgentDocs}

\* one run of ingest_agent: cas_path.write_bytes(normalized) replaces a blob of
\* that name; a ValidationError leaves the directory as it was
IngestAgent ==
    /\ \E obj \in AgentFiles :
         LET r == ingest_agent(obj)
         IN  IF r.result = Ok
             THEN /\ cas' = {b \in cas : b.name # r.name}
                              \cup {[name |-> r.name, bytes |-> r.bytes]}
                  /\ ingested' = ingested \cup {obj}
             ELSE UNCHANGED <<cas, ingested>>
    /\ UNCHANGED <<scan, index>>
    /\ UNCHANGED <<walvars, vvars, callvars>>

NextCas == IngestAgent

SpecCas == Init /\ [][NextCas]_vars

\* ------------------------------------------------------ the symbol scanner
\* a file whose read_text raises (permissions, or bytes that are not UTF-8)
Unreadable == <<"unreadable">>

\* text that json.loads rejects
InvalidJson == <<"invalid">>

\* JSON null, and the None that dict.get returns for a missing key
JNull == <<"null", "">>

\* what a manifest file can hold
ManifestContents ==
    { Unreadable,
      InvalidJson,
      JObj(<<<<"symbol", JObj(<<<<"saddr", JStr("s")>>, <<"type", JStr("api")>>>>)>>>>),
      JObj(<<<<"symbol", JObj(<<<<"saddr", JStr("s")>>>>)>>>>),
      JStr("s") }

\* list(MANIFESTS.glob("*.json")): the files in the order glob yields them,
\* each named by its place in the listing
Listings ==
    UNION {[1..n -> ManifestContents] : n \in 0..MaxManifests}

\* f"Invalid JSON in {mf.name}: {e}"
JsonError(name) == <<"Invalid JSON in", name>>

\* f"Error processing {mf.name}: {e}"
ProcessingError(name) == <<"Error processing", name>>

\* Python truth of saddr / stype
Truthy(v) == v \notin {JNull, JStr("")}

\* the body of the loop over manifest_files for one file: the symbols and
\* errors lists after it
scan_manifest(name, content, symbols, errors) ==
    IF content = Unreadable
    THEN <<symbols, Append(errors, ProcessingError(name))>>
    ELSE IF content = InvalidJson
    THEN <<symbols, Append(errors, JsonError(name))>>
    ELSE IF content[1] # "obj"
    THEN <<symbols, Append(errors, ProcessingError(name))>>
    ELSE LET symbol == JGet(content, "symbol", JObj(<< >>))
         IN  IF symbol[1] # "obj"
             THEN <<symbols, Append(errors, ProcessingError(name))>>
             ELSE LET saddr == JGet(symbol, "saddr", JNull)
                      stype == JGet(symbol, "type", JNull)
                  IN  IF Truthy(saddr) /\ Truthy(stype)
                      THEN <<Append(symbols, <<<<"source", "manifest">>,
                                               <<"saddr", saddr>>,
                                               <<"type", stype>>,
                                               <<"path", name>>>>),
                             errors>>
                      ELSE <<symbols, errors>>

\* index_data, lines 73-76, as the text json.dumps gives for it
index_data(symbols, errors) ==
    <<"json", IF errors # << >>
              THEN <<<<"symbols", symbols>>, <<"errors", errors>>>>
              ELSE <<<<"symbols", symbols>>>>>>

\* 10-scan_symbols.py starts, lines 27-38: exit 0 when the manifests directory
\* is missing, else list it
ScanStart ==
    /\ scan.pc \in {"off", "exited", "killed"}
    /\ \/ scan' = [NoScan EXCEPT !.pc = "exited", !.prev = index]
       \/ \E manifest_files \in Listings :
            scan' = [NoScan EXCEPT !.pc = "scan", !.listed = TRUE,
                                   !.manifests = manifest_files,
                                   !.todo = [i \in DOMAIN manifest_files |-> i],
                                   !.prev = index]
    /\ UNCHANGED <<cas, ingested, index>>
    /\ UNCHANGED <<walvars, vvars, callvars>>

\* one pass of the loop, lines 40-69
ScanFile ==
    /\ scan.pc = "scan"
    /\ scan.todo # << >>
    /\ LET name == Head(scan.todo)
           r == scan_manifest(name, scan.manifests[name], scan.symbols, scan.errors)
       IN  scan' = [scan EXCEPT !.todo = Tail(scan.todo), !.symbols = r[1], !.errors = r[2]]
    /\ UNCHANGED <<cas, ingested, index>>
    /\ UNCHANGED <<walvars, vvars, callvars>>

\* INDEX.write_text, line 78, first half: open(INDEX, "w") truncates the file
OpenIndex ==
    /\ scan.pc = "scan"
    /\ scan.todo = << >>
    /\ index' = EmptyStr
    /\ scan' = [scan EXCEPT !.pc = "write"]
    /\ UNCHANGED <<cas, ingested>>
    /\ UNCHANGED <<walvars, vvars, callvars>>

\* INDEX.write_text, line 78, second half: the text is written and the file
\* closed; then lines 80-90 and exit 0
WriteIndex ==
    /\ scan.pc = "write"
    /\ index' = index_data(scan.symbols, scan.errors)
    /\ scan' = [scan EXCEPT !.pc = "exited", !.exit = 0]
    /\ UNCHANGED <<cas, ingested>>
    /\ UNCHANGED <<walvars, vvars, callvars>>

\* the scanner is killed
ScanCrash ==
    /\ scan.pc \in {"scan", "write"}
    /\ scan' = [scan EXCEPT !.pc = "killed"]
    /\ UNCHANGED <<cas, ingested, index>>
    /\ UNCHANGED <<walvars, vvars, callvars>>

NextScan ==
    \/ ScanStart
    \/ ScanFile
    \/ OpenIndex
    \/ WriteIndex
    \/ ScanCrash

SpecScan == Init /\ [][NextScan]_vars

\* ----------------------------------------------------- the policy engine
\* strings are sequences of one-character strings
Star == <<"*">>

\* variant: * does not match a path separator
RECURSIVE fnmatch_star_stops_at_slash(_, _)
fnmatch_star_stops_at_slash(name, pat) ==
    IF pat = << >> THEN name = << >>
    ELSE IF Head(pat) = "*"
    THEN \/ fnmatch_star_stops_at_slash(name, Tail(pat))
         \/ /\ name # << >>
            /\ Head(name) # "/"
            /\ fnmatch_star_stops_at_slash(Tail(name), pat)
    ELSE /\ name # << >>
         /\ Head(pat) = "?" \/ Head(pat) = Head(name)
         /\ fnmatch_star_stops_at_slash(Tail(name), Tail(pat))

\* fnmatch(name, pat): * matches any run of characters, ? any one character,
\* every other character itself
RECURSIVE fnmatch(_, _)
fnmatch(name, pat) ==
    IF pat = << >> THEN name = << >>
    ELSE IF Head(pat) = "*"
    THEN \/ fnmatch(name, Tail(pat))
         \/ /\ name # << >>
            /\ fnmatch(Tail(name), pat)
    ELSE /\ name # << >>
         /\ Head(pat) = "?" \/ Head(pat) = Head(name)
         /\ fnmatch(Tail(name), Tail(pat))

\* the loop of allowed over the rule list: True at the first rule whose
\* patterns match both addresses, False when the list is exhausted
RECURSIVE any_rule_matches(_, _, _)
any_rule_matches(rules, from, to) ==
    IF rules = << >> THEN FALSE
    ELSE IF /\ fnmatch(from, DictGet(Head(rules), "from", Star))
            /\ fnmatch(to, DictGet(Head(rules), "to", Star))
    THEN TRUE
    ELSE any_rule_matches(Tail(rules), from, to)

\* policy_match.allowed(policy, from, to)
allowed(policy, from, to) == any_rule_matches(DictGet(policy, "allow", << >>), from, to)

\* symbol addresses
Addrs == {<< >>, <<"a">>, <<"b">>, <<"a", "/", "b">>}

\* glob patterns of rules
Patterns == {Star, <<"a", "*">>, <<"?">>}

\* allow rules: from and to each a pattern or missing
Rules ==
    {<<<<"from", f>>, <<"to", t>>>> : f \in Patterns, t \in Patterns}
        \cup {<<<<"from", f>>>> : f \in Patterns}
        \cup {<<<<"to", t>>>> : t \in Patterns}
        \cup {<< >>}

\* the policy under check, once loaded
PolicyOf(call) == call[2]

\* a policy file is loaded: without an allow key, or with an empty allow list
LoadPolicy ==
    /\ fin = NoCall
    /\ fin' \in {<<"policy", << >>>>, <<"policy", <<<<"allow", << >>>>>>>>}
    /\ fout' = NoCall
    /\ UNCHANGED reg
    /\ UNCHANGED <<walvars, vvars, cas, ingested, scan, index>>

\* a rule is appended to the allow list before the policy is consulted
AddRule ==
    /\ fin[1] = "policy"
    /\ fout = NoCall
    /\ Len(DictGet(PolicyOf(fin), "allow", << >>)) < MaxRules
    /\ \E rule \in Rules :
         fin' = <<"policy",
                  DictSet(PolicyOf(fin), "allow",
                          Append(DictGet(PolicyOf(fin), "allow", << >>), rule))>>
    /\ fout' = NoCall
    /\ UNCHANGED reg
    /\ UNCHANGED <<walvars, vvars, cas, ingested, scan, index>>

\* one call of allowed on the loaded policy
CheckAllowed ==
    /\ fin[1] = "policy"
    /\ fout = NoCall
    /\ \E from \in Addrs, to \in Addrs :
         fout' = <<"allowed", from, to, allowed(PolicyOf(fin), from, to)>>
    /\ UNCHANGED <<fin, reg>>
    /\ UNCHANGED <<walvars, vvars, cas, ingested, scan, index>>

NextPolicy ==
    \/ LoadPolicy
    \/ AddRule
    \/ CheckAllowed

SpecPolicy == Init /\ [][NextPolicy]_vars

\* --------------------------------------------- the placement and lane solver
\* the symbols of the manifests, in list order, and the routes between them
Symbols == <<"sym_a", "sym_b", "sym_c">>
SymbolSet == {Symbols[i] : i \in DOMAIN Symbols}
SolverRoutes == {<<"sym_a", "sym_b">>, <<"sym_b", "sym_c">>}

\* nodes(topology), in order
NodeIds == <<"0", "1">>
NodeSet == {NodeIds[i] : i \in DOMAIN NodeIds}

\* a symbol without a prior placement
Unplaced == "unplaced"

\* the preference order of lanes
PreferLanes == <<"shm", "uds">>

\* base latency of a lane, in tenths of a millisecond
LaneLatency(lane) == IF lane = "shm" THEN 2 ELSE 6

\* a lane that needs both endpoints on one node
RequiresColocation(lane) == lane = "shm"

\* numa_penalty_ms, in tenths of a millisecond
NumaPenalty(place, a, b) == IF place[a] = place[b] THEN 0 ELSE 4

\* solver_constraints.supports_lane: shm needs tags.supports_shm, every other
\* lane is supported by default
supports_lane(in, sym, lane) == lane = "shm" => sym \in in.shm

\* variant: co-location is not looked at
RECURSIVE choose_lane_anywhere(_, _, _, _, _)
choose_lane_anywhere(in, sym_from, sym_to, prefer, same_node) ==
    IF prefer = << >> THEN "uds"
    ELSE IF /\ supports_lane(in, sym_from, Head(prefer))
            /\ supports_lane(in, sym_to, Head(prefer))
    THEN Head(prefer)
    ELSE choose_lane_anywhere(in, sym_from, sym_to, Tail(prefer), same_node)

\* choose_lane(sym_from, sym_to, prefer, same_node): the first lane of prefer
\* that both symbols support and whose co-location need is met; uds otherwise
RECURSIVE choose_lane(_, _, _, _, _)
choose_lane(in, sym_from, sym_to, prefer, same_node) ==
    IF prefer = << >> THEN "uds"
    ELSE IF /\ supports_lane(in, sym_from, Head(prefer))
            /\ supports_lane(in, sym_to, Head(prefer))
            /\ RequiresColocation(Head(prefer)) => same_node
    THEN Head(prefer)
    ELSE choose_lane(in, sym_from, sym_to, Tail(prefer), same_node)

\* the lane map for a placement: choose_lane on every route
choose_lanes(in, place) ==
    [r \in SolverRoutes |->
        choose_lane(in, r[1], r[2], PreferLanes, place[r[1]] = place[r[2]])]

\* initial_place: the prior placement of a symbol, else round-robin over nodes
initial_place(in) ==
    [sym \in SymbolSet |->
        IF in.prev_place[sym] # Unplaced THEN in.prev_place[sym]
        ELSE LET i == CHOOSE j \in DOMAIN Symbols : Symbols[j] = sym
             IN  NodeIds[((i - 1) % Len(NodeIds)) + 1]]

\* summed demand of the symbols placed on a node
RECURSIVE SumOver(_, _)
SumOver(syms, f) ==
    IF syms = {} THEN 0
    ELSE LET sym == CHOOSE x \in syms : TRUE
         IN  f[sym] + SumOver(syms \ {sym}, f)

NodeLoad(in, place, node) ==
    LET here == {sym \in SymbolSet : place[sym] = node}
        cpu == [sym \in SymbolSet |-> in.demand[sym].cpu]
        mem == [sym \in SymbolSet |-> in.demand[sym].mem]
    IN  [cpu |-> SumOver(here, cpu), mem |-> SumOver(here, mem)]

\* a node whose summed demand exceeds its capacity
Overloaded(in, place, node) ==
    \/ NodeLoad(in, place, node).cpu > in.capacity[node].cpu
    \/ NodeLoad(in, place, node).mem > in.capacity[node].mem

\* a node with spare capacity for one more symbol
HasRoomFor(in, place, node, sym) ==
    /\ NodeLoad(in, place, node).cpu + in.demand[sym].cpu <= in.capacity[node].cpu
    /\ NodeLoad(in, place, node).mem + in.demand[sym].mem <= in.capacity[node].mem

\* the repair moves pack_feasible can make: a symbol of an overloaded node
\* goes to a node with room for it
PackMoves(in, place) ==
    {<<sym, node>> \in SymbolSet \X NodeSet :
        /\ Overloaded(in, place, place[sym])
        /\ node # place[sym]
        /\ HasRoomFor(in, place, node, sym)}

\* placement_cost: lane latency and NUMA penalty of every route, plus the
\* churn weight for every symbol moved off its prior node
placement_cost(in, place) ==
    LET lanes == choose_lanes(in, place)
        route_cost == [r \in SolverRoutes |->
                          LaneLatency(lanes[r]) + NumaPenalty(place, r[1], r[2])]
        moved == {sym \in SymbolSet :
                     in.prev_place[sym] # Unplaced /\ in.prev_place[sym] # place[sym]}
    IN  SumOver(SolverRoutes, route_cost) + in.churn_weight * Cardinality(moved)

\* the single-symbol moves of one local-search iteration that improve the
\* total cost by the most
BestMoves(in, place) ==
    LET moves == {<<sym, node>> \in SymbolSet \X NodeSet : node # place[sym]}
        after(m) == [place EXCEPT ![m[1]] = m[2]]
        better == {m \in moves : placement_cost(in, after(m)) < placement_cost(in, place)}
    IN  {m \in better :
            \A o \in better : placement_cost(in, after(m)) <= placement_cost(in, after(o))}

\* resource demands and node capacities
Demands == {[cpu |-> 1, mem |-> 1], [cpu |-> 3, mem |-> 1]}
Capacities == {[cpu |-> 2, mem |-> 4], [cpu |-> 5, mem |-> 4]}

\* prior placements
PrevPlaces ==
    {[sym \in SymbolSet |-> Unplaced],
     [sym \in SymbolSet |-> "0"],
     [sym \in SymbolSet |-> IF sym = "sym_b" THEN "1" ELSE "0"],
     [sym \in SymbolSet |-> IF sym = "sym_a" THEN "0"
                             ELSE IF sym = "sym_b" THEN "1" ELSE Unplaced]}

SolverInputs ==
    [demand : [SymbolSet -> Demands], capacity : [NodeSet -> Capacities],
     shm : SUBSET SymbolSet, prev_place : PrevPlaces, churn_weight : {0, 5, 20}]

SolverInput == fin[2]
SolverState == fout[2]

\* optimize is called: the initial placement is made
StartOptimize ==
    /\ fin = NoCall
    /\ \E in \in SolverInputs :
         /\ fin' = <<"optimize", in>>
         /\ fout' = <<"solver", [stage |-> "pack", place |-> initial_place(in),
                                 lanes |-> choose_lanes(in, initial_place(in)),
                                 iter |-> 0]>>
    /\ UNCHANGED reg
    /\ UNCHANGED <<walvars, vvars, cas, ingested, scan, index>>

\* pack_feasible moves one symbol off an overloaded node
PackMove ==
    /\ fin[1] = "optimize"
    /\ SolverState.stage = "pack"
    /\ \E m \in PackMoves(SolverInput, SolverState.place) :
         fout' = <<"solver", [SolverState EXCEPT !.place = [@ EXCEPT ![m[1]] = m[2]]]>>
    /\ UNCHANGED <<fin, reg>>
    /\ UNCHANGED <<walvars, vvars, cas, ingested, scan, index>>

\* pack_feasible returns: no repair move is left
PackDone ==
    /\ fin[1] = "optimize"
    /\ SolverState.stage = "pack"
    /\ PackMoves(SolverInput, SolverState.place) = {}
    /\ fout' = <<"solver", [SolverState EXCEPT
                               !.stage = "search",
                               !.lanes = choose_lanes(SolverInput, SolverState.place)]>>
    /\ UNCHANGED <<fin, reg>>
    /\ UNCHANGED <<walvars, vvars, cas, ingested, scan, index>>

\* one iteration of the local search: the best strictly improving move is
\* accepted and the lanes are chosen again for the new placement
SearchMove ==
    /\ fin[1] = "optimize"
    /\ SolverState.stage = "search"
    /\ SolverState.iter < MaxIterations
    /\ \E m \in BestMoves(SolverInput, SolverState.place) :
         LET place == [SolverState.place EXCEPT ![m[1]] = m[2]]
         IN  fout' = <<"solver", [SolverState EXCEPT
                                    !.place = place,
                                    !.lanes = choose_lanes(SolverInput, place),
                                    !.iter = @ + 1]>>
    /\ UNCHANGED <<fin, reg>>
    /\ UNCHANGED <<walvars, vvars, cas, ingested, scan, index>>

\* optimize returns: the iteration cap is reached or no move improves the cost
SearchDone ==
    /\ fin[1] = "optimize"
    /\ SolverState.stage = "search"
    /\ \/ SolverState.iter = MaxIterations
       \/ BestMoves(SolverInput, SolverState.place) = {}
    /\ fout' = <<"solver", [SolverState EXCEPT !.stage = "done"]>>
    /\ UNCHANGED <<fin, reg>>
    /\ UNCHANGED <<walvars, vvars, cas, ingested, scan, index>>

NextSolver ==
    \/ StartOptimize
    \/ PackMove
    \/ PackDone
    \/ SearchMove
    \/ SearchDone

SpecSolver == Init /\ [][NextSolver]_vars

\* ------------------------------------------------------ reference notions
\* the pairs of a plan that its identity covers
PayloadPairs(d) == {d[i] : i \in {j \in DOMAIN d : d[j][1] \notin {"plan_id", "sign"}}}

\* the one arrangement of a set of pairs with strictly increasing keys
SortedArrangement(P) ==
    CHOOSE s \in [1..Cardinality(P) -> P] :
        /\ {s[i] : i \in 1..Cardinality(P)} = P
        /\ \A i, j \in 1..Cardinality(P) : i < j => KeyRank(s[i][1]) < KeyRank(s[j][1])

\* plan_id is "sha256-" + hash of the canonical JSON without plan_id and sign
IntegrityHolds(d) ==
    /\ "plan_id" \in DictKeys(d)
    /\ DictGet(d, "plan_id", EmptyStr) = PlanIdOf(SortedArrangement(PayloadPairs(d)))

Required(in) ==
    \/ in.require_signature = "True"
    \/ in.require_signature = None /\ in.cfg_require

\* sha256(prev_hex + hex(sha256(content))): the hash of the previous root
\* followed by the hex digest of the content
merkle(prev_hex, content) == Sha256(<<"concat", prev_hex, Sha256(content)>>)

\* entry i of the replay order does not continue the chain of stored roots,
\* or its stored root is not the hash of its frame
Offends(s, i) ==
    \/ DictGet(s[i].frame, "prev", EmptyStr) # (IF i = 1 THEN GENESIS ELSE s[i - 1].root)
    \/ s[i].root # compute_entry_hash(s[i].frame)

\* no call is in progress
Quiescent == \A p \in Procs : pc[p] \in {"start", "done"}

\* the processes whose apply_plan call returned the entry hash
Succeeded == {p \in Procs : pc[p] = "done" /\ outcome[p] = Ok}

\* no append_entry call has raised
NoAppendRaised ==
    \A p \in Procs :
        pc[p] = "done" => outcome[p][1] \in {"return", "ValidationError", "SignatureError"}

\* one entry per successful call, no two entries with the same frame.prev,
\* every entry linked to GENESIS or to another entry, LATEST the root of the tip
ChainIsLinear ==
    /\ Cardinality(wal) = Cardinality(Succeeded)
    /\ \A f, g \in wal :
          DictGet(f.frame, "prev", EmptyStr) = DictGet(g.frame, "prev", EmptyStr) => f = g
    /\ \A f \in wal :
          \/ DictGet(f.frame, "prev", EmptyStr) = GENESIS
          \/ \E g \in wal : g.root = DictGet(f.frame, "prev", EmptyStr)
    /\ \E f \in wal :
          /\ latest = f.root
          /\ \A g \in wal : DictGet(g.frame, "prev", EmptyStr) # f.root

\* a JSON value with the order of its keys forgotten at every depth
RECURSIVE AsSet(_)
AsSet(v) ==
    IF v[1] = "obj"
    THEN <<"obj", {<<v[2][i][1], AsSet(v[2][i][2])>> : i \in DOMAIN v[2]}>>
    ELSE v

\* two JSON values that differ at most in key order
SameContent(a, b) == AsSet(a) = AsSet(b)

\* a written JSON value whose keys ascend in every object
RECURSIVE KeysAscend(_)
KeysAscend(v) ==
    IF v[1] = "obj"
    THEN /\ \A i, j \in DOMAIN v[2] : i < j => KeyRank(v[2][i][1]) < KeyRank(v[2][j][1])
         /\ \A i \in DOMAIN v[2] : KeysAscend(v[2][i][2])
    ELSE TRUE

\* two agent files with the same content whose nested objects differ in key order
NestedReorder(a, b) ==
    /\ SameContent(a, b)
    /\ \E i \in DOMAIN a[2], j \in DOMAIN b[2] :
         /\ a[2][i][1] = b[2][j][1]
         /\ a[2][i][2] # b[2][j][2]


\* a manifest that is readable, valid JSON and has symbol.saddr and symbol.type
WellFormed(c) ==
    /\ c \notin {Unreadable, InvalidJson}
    /\ c[1] = "obj"
    /\ \E i \in DOMAIN c[2] :
         /\ c[2][i][1] = "symbol"
         /\ c[2][i][2][1] = "obj"
         /\ {"saddr", "type"} \subseteq DictKeys(c[2][i][2][2])

\* the symbols and errors lists of a written index file
IndexList(ix, k) == IF ix[1] = "json" THEN DictGet(ix[2], k, << >>) ELSE << >>

\* the entries of the index's symbols list made for the manifest of that name
SymbolsFor(ix, name) ==
    {i \in DOMAIN IndexList(ix, "symbols") :
        DictGet(IndexList(ix, "symbols")[i], "path", 0) = name}

\* the entries of the index's errors list made for the manifest of that name
ErrorsFor(ix, name) ==
    {i \in DOMAIN IndexList(ix, "errors") : IndexList(ix, "errors")[i][2] = name}

\* an index file written in full for that listing
CompleteIndex(ix, manifests) ==
    /\ ix[1] = "json"
    /\ \A n \in DOMAIN manifests :
         Cardinality(SymbolsFor(ix, n)) = IF WellFormed(manifests[n]) THEN 1 ELSE 0
    /\ Len(IndexList(ix, "symbols")) =
           Cardinality({n \in DOMAIN manifests : WellFormed(manifests[n])})

\* glob matching stated by cuts: position i of the pattern covers the
\* characters of the name between cut[i-1] and cut[i]; * covers any run, ?
\* one character, any other character one equal character
GlobMatches(name, pat) ==
    \E cut \in [0..Len(pat) -> 0..Len(name)] :
        /\ cut[0] = 0
        /\ cut[Len(pat)] = Len(name)
        /\ \A i \in 1..Len(pat) :
             /\ cut[i - 1] <= cut[i]
             /\ pat[i] # "*" =>
                    /\ cut[i] = cut[i - 1] + 1
                    /\ pat[i] = "?" \/ pat[i] = name[cut[i]]

\* some rule of the allow list has patterns matching both addresses
SomeRuleGrants(policy, from, to) ==
    \E i \in DOMAIN DictGet(policy, "allow", << >>) :
        LET rule == DictGet(policy, "allow", << >>)[i]
        IN  /\ GlobMatches(from, DictGet(rule, "from", Star))
            /\ GlobMatches(to, DictGet(rule, "to", Star))

\* the total demand of all symbols does not exceed the total capacity of all nodes
TotalFits(in) ==
    /\ SumOver(SymbolSet, [sym \in SymbolSet |-> in.demand[sym].cpu])
           <= SumOver(NodeSet, [n \in NodeSet |-> in.capacity[n].cpu])
    /\ SumOver(SymbolSet, [sym \in SymbolSet |-> in.demand[sym].mem])
           <= SumOver(NodeSet, [n \in NodeSet |-> in.capacity[n].mem])

\* no node carries more than its capacity
Feasible(in, place) == \A node \in NodeSet : ~Overloaded(in, place, node)

\* optimize has returned
OptimizeReturned == fin[1] = "optimize" /\ SolverState.stage = "done"

\* the entry files reached from a root by following frame.prev
RECURSIVE ChainFrom(_, _)
ChainFrom(files, root) ==
    IF \E f \in files : f.root = root
    THEN LET f == CHOOSE g \in files : g.root = root
         IN  {f} \cup ChainFrom(files \ {f}, DictGet(f.frame, "prev", EmptyStr))
    ELSE {}

\* two entry files with the same frame.prev
Forked == \E f, g \in wal :
            f # g /\ DictGet(f.frame, "prev", EmptyStr) = DictGet(g.frame, "prev", EmptyStr)

\* the append_entry call of p has returned or raised
Left(p) == pc[p] \in {"cachetmp", "cacherename", "done"}

\* the path lies outside the base directory: resolved without regard to the
\* checks of validate_path, it is not below the resolved base
OutsideBase(path_str, base_str) ==
    LET joined == IF is_absolute(path_str) THEN PathParts(path_str)
                  ELSE PathParts(base_str) \o PathParts(path_str)
    IN  resolve(joined) # NullByte
          /\ ~relative_to(resolve(joined), resolve(PathParts(base_str)))

\* the roles reached from a role by following inherits at least once
RECURSIVE Ancestors(_, _, _)
Ancestors(roles, names, k) ==
    LET parents == UNION {{get_role(roles, n).inherits[i] :
                              i \in DOMAIN get_role(roles, n).inherits} : n \in names}
    IN  IF k = 0 THEN {} ELSE parents \cup Ancestors(roles, parents, k - 1)
InheritanceAcyclic(roles) ==
    \A n \in DOMAIN roles : n \notin Ancestors(roles, {n}, Cardinality(DOMAIN roles))

\* ----------------------------------------------------------------- claims
\* C1: with locking enabled, at most one process at a time is between a
\* successful _acquire_lock and its _release_lock, and the process in that
\* section holds the exclusive lock the whole time.
C1_LockHeldExclusively ==
    /\ \A p, q \in Procs : (InLockedSection(p) /\ InLockedSection(q)) => p = q
    /\ \A p \in Procs : InLockedSection(p) => lockHolder = p

\* C2: when every locked append_entry call has returned successfully, each
\* call has committed exactly one entry, no two entries share frame.prev, the
\* entries form one chain from GENESIS, LATEST is the root of the chain's tip,
\* and no step alters or removes an entry already written.
C2_ChainLinearState ==
    (Quiescent /\ NoAppendRaised /\ Cardinality(Succeeded) >= 2) => ChainIsLinear
C2_ConcurrentAppendsLinear ==
    /\ []C2_ChainLinearState
    /\ [][\A f \in wal : f \in wal']_vars

\* C3: after successful locked append_entry calls on an initially empty WAL
\* verify_chain() returns True -- stated here for the states in which the
\* entries written do form one linear chain with LATEST at its tip.
C3_VerifyChainAfterAppends ==
    (Quiescent /\ NoAppendRaised /\ Succeeded # {} /\ ChainIsLinear) =>
        verify_chain(wal, latest) = Ok

C5_IntegrityExactAndTamperEvident ==
    /\ vint # Pending =>
          IF IntegrityHolds(vin.plan) THEN vint = Ok ELSE vint[1] = "ValidationError"
    /\ (vmut /\ vint # Pending) => vint[1] = "ValidationError"
C5_Witness ==
    /\ vmut
    /\ vint[1] = "ValidationError"
    /\ "sign" \in DictKeys(vin.plan)

\* C6: a plan with a correct plan_id and no sign block passes
\* verify_plan_complete when signatures are not required and raises
\* SignatureError when they are.
C6_UnsignedPlan ==
    (vout # Pending /\ IntegrityHolds(vin.plan) /\ "sign" \notin DictKeys(vin.plan)) =>
        IF Required(vin) THEN vout[1] = "SignatureError" ELSE vout = Ok
C6_Witness ==
    /\ vout = Ok
    /\ IntegrityHolds(vin.plan)
    /\ "sign" \notin DictKeys(vin.plan)
    /\ vin.require_signature = None
    /\ ~vin.cfg_require

\* C7: a plan that contains a sign key passes verify_plan_complete only if
\* sign.alg is ed25519, sign.key_id is allowlisted, a public key is stored for
\* it, and the signature verifies over the canonical plan without sign.
C7_SignKeyAlwaysVerified ==
    (vout = Ok /\ "sign" \in DictKeys(vin.plan)) =>
        LET sign == DictGet(vin.plan, "sign", << >>)
            key_id == DictGet(sign, "key_id", "")
        IN  /\ DictGet(sign, "alg", "") = "ed25519"
            /\ key_id \in TRUSTED_KEY_IDS
            /\ vin.keys[key_id] # NoKeyFile
            /\ DictGet(sign, "sig", EmptyStr) =
                  SigBy(vin.keys[key_id][Len(vin.keys[key_id])],
                        canon(DictPop(vin.plan, "sign")))

\* C8: plan verification reports the first failing check in the order hash
\* integrity (ValidationError), algorithm (SignatureError), key id
\* (AuthenticationError), stored key (AuthenticationError; a key file of a
\* type other than ed25519: SignatureError), signature (SignatureError).
\* Stated for every plan but the one with an empty sign block.
FirstFailingCheck(in) ==
    LET sign == DictGet(in.plan, "sign", << >>)
        key_id == DictGet(sign, "key_id", "")
    IN  IF ~IntegrityHolds(in.plan) THEN "ValidationError"
        ELSE IF "sign" \notin DictKeys(in.plan)
        THEN IF Required(in) THEN "SignatureError" ELSE "return"
        ELSE IF DictGet(sign, "alg", "") # "ed25519" THEN "SignatureError"
        ELSE IF key_id = "" \/ key_id \notin TRUSTED_KEY_IDS THEN "AuthenticationError"
        ELSE IF in.keys[key_id] = NoKeyFile THEN "AuthenticationError"
        ELSE IF in.keys[key_id][1] = "typed" /\ in.keys[key_id][2] # "ed25519"
        THEN "SignatureError"
        ELSE IF ~in.helper THEN "SignatureError"
        ELSE IF DictGet(sign, "sig", EmptyStr) #
                   SigBy(in.keys[key_id][Len(in.keys[key_id])],
                         canon(DictPop(in.plan, "sign")))
        THEN "SignatureError"
        ELSE "return"
C8_FirstFailingCheckReported ==
    (vout # Pending /\ ~("sign" \in DictKeys(vin.plan) /\ DictGet(vin.plan, "sign", << >>) = << >>))
        => vout[1] = FirstFailingCheck(vin)

\* C9: lock acquisition is bounded: a caller waiting for the WAL lock either
\* obtains it or raises WALLockError once the elapsed time exceeds the
\* timeout, and never waits forever; the call that fails with WALLockError
\* has written no entry file and leaves LATEST unchanged.
C9_AcquireStep ==
    \A p \in Procs :
        (pc[p] = "acquire" /\ pc'[p] # "acquire") =>
            \/ /\ pc'[p] = "locked"
               /\ lockHolder = 0
               /\ lockHolder' = p
            \/ /\ pc'[p] = "done"
               /\ outcome'[p][1] = "WALLockError"
               /\ waited[p] > LockTimeout
               /\ lockHolder # 0
               /\ UNCHANGED <<wal, latest, latestTmp>>
C9_BoundedLockAcquisition ==
    /\ [][C9_AcquireStep]_vars
    /\ \A p \in Procs : (pc[p] = "acquire") ~> (pc[p] # "acquire")
C9_Witness ==
    \E p \in Procs :
        /\ pc[p] = "done"
        /\ outcome[p][1] = "WALLockError"
        /\ lockHolder # 0
        /\ wal # {}

\* C10: when append_entry has read a LATEST value other than GENESIS and no
\* entry file has that root, it raises WALCorruptionError, writes no entry
\* file, leaves LATEST unchanged and gives up the lock; when such an entry
\* exists, or LATEST is GENESIS, the continuity check lets the append go on.
C10_CheckStep ==
    \A p \in Procs :
        (pc[p] = "check" /\ pc'[p] # "check") =>
            LET prev == DictGet(entry[p], "prev", EmptyStr)
            IN  IF prev # GENESIS /\ \A f \in wal : f.root # prev
                THEN /\ pc'[p] = "release"
                     /\ exc'[p][1] = "WALCorruptionError"
                     /\ UNCHANGED <<wal, latest, latestTmp>>
                ELSE /\ pc'[p] = "write"
                     /\ exc'[p] = NoExc
C10_RaiseStep ==
    \A p \in Procs :
        (pc[p] = "release" /\ exc[p][1] = "WALCorruptionError" /\ pc'[p] # "release") =>
            /\ pc'[p] = "done"
            /\ outcome'[p][1] = "WALCorruptionError"
            /\ lockHolder' # p
            /\ UNCHANGED <<wal, latest, latestTmp>>
C10_NothingWritten ==
    \A p \in Procs :
        (pc[p] = "release" /\ exc[p][1] = "WALCorruptionError") =>
            \A f \in wal : f.frame # entry[p]
C10_ContinuityCheck ==
    /\ [][C10_CheckStep]_vars
    /\ [][C10_RaiseStep]_vars
    /\ []C10_NothingWritten
C10_Witness ==
    \E p \in Procs :
        /\ pc[p] = "done"
        /\ outcome[p][1] = "WALCorruptionError"
        /\ lockHolder # p
        /\ wal # {}
        /\ latest = StrayHash

\* C11: in every state of the locked append path, crashes of appenders
\* included, what _read_latest returns is GENESIS or the root of an entry
\* file that exists; LATEST never holds part of a hash.
C11_LatestNamesWrittenEntry ==
    /\ read_latest(latest) = GENESIS \/ \E f \in wal : f.root = latest
    /\ latest \in {NoFile, EmptyStr} \/ latest[1] = "sha256"
C11_Witness ==
    /\ \E p \in Procs : pc[p] = "done" /\ outcome[p] = Killed
    /\ latestTmp = EmptyStr
    /\ \E f \in wal : f.root = latest
    /\ \E f \in wal : f.root # latest

\* C12: the stored root of every entry written by append_entry is
\* sha256(prev_hex + hex(sha256(canonical(frame)))) with prev_hex the frame's
\* prev, and verify_chain accepts exactly the roots of that form.
C12_RootIsChainedHash ==
    \A f \in wal :
        /\ f.root = merkle(DictGet(f.frame, "prev", EmptyStr), canon(f.frame))
        /\ ReplayChain(<<f>>, DictGet(f.frame, "prev", EmptyStr))[1] = Ok

\* C13: on a WAL with at least one entry and no append in progress,
\* verify_chain() returns True only if the value read from LATEST (GENESIS
\* when absent or empty) is the root of the last entry in filename order,
\* and otherwise raises WALCorruptionError.
C13_LatestMustBeLastRoot ==
    (chk # Pending /\ wal # {} /\ Quiescent) =>
        LET s == SortedFiles(wal)
        IN  IF read_latest(latest) = s[Len(s)].root
            THEN chk = Ok \/ chk[1] = "WALCorruptionError"
            ELSE chk[1] = "WALCorruptionError"

\* C14: verify_chain() raises WALCorruptionError naming the first entry, in
\* filename order, whose frame.prev is not the previous stored root (GENESIS
\* for the first) or whose stored root is not the hash of its frame; after
\* an outside edit of a root or frame field of one entry it always raises;
\* and the call changes neither the entry files nor LATEST.
C14_OffenderNamed ==
    chk # Pending =>
        LET s == SortedFiles(wal)
            bad == {i \in 1..Len(s) : Offends(s, i)}
        IN  /\ bad # {} =>
                  /\ chk[1] = "WALCorruptionError"
                  /\ chk[2][2] = s[CHOOSE i \in bad : \A j \in bad : i <= j].name
            /\ tampered => chk[1] = "WALCorruptionError"
C14_VerifyChainDetects ==
    /\ []C14_OffenderNamed
    /\ [][chk' # chk => UNCHANGED <<wal, latest, latestTmp>>]_vars
C14_Witness ==
    /\ tampered
    /\ chk[1] = "WALCorruptionError"
    /\ chk[2][1] = "Hash mismatch at"
    /\ Cardinality(wal) >= 2

\* C15: a plan_id appears in the frame of at most one WAL entry, however
\* often apply_plan is run on the plan.
C15_PlanConsumedOnce ==
    \A f, g \in wal :
        DictGet(f.frame, "plan_id", EmptyStr) = DictGet(g.frame, "plan_id", EmptyStr) => f = g

\* C16: a finished run of the apply stage exits 0 exactly when its plan was
\* verified and appended, 1 when plan verification failed (integrity,
\* signature or key trust), and 99 for any other error.
C16_ExitCodes ==
    \A p \in Procs :
        (pc[p] = "done" /\ outcome[p] # Killed) =>
            /\ main_exit(outcome[p]) =
                  (IF outcome[p] = Ok THEN 0
                   ELSE IF outcome[p][1] \in {"ValidationError", "SignatureError",
                                              "AuthenticationError"} THEN 1
                   ELSE 99)
            /\ main_exit(outcome[p]) = 0 =>
                  \E f \in wal : DictGet(f.frame, "plan_id", EmptyStr) =
                                     DictGet(plan[p], "plan_id", EmptyStr)

\* C17: agent files that differ only in key order, at any depth, normalize to
\* the same bytes and the same sha256 key; every blob is named by the sha256
\* of its bytes, its bytes are the canonical form of an ingested content, and
\* each ingested content has exactly one blob however often it was ingested
C17_OneBlobPerContent ==
    /\ \A a, b \in AgentFiles :
         SameContent(a, b) =>
             /\ normalize(a) = normalize(b)
             /\ sha256_bytes(normalize(a)) = sha256_bytes(normalize(b))
    /\ \A b \in cas :
         /\ b.name = BlobName(Sha256(b.bytes))
         /\ KeysAscend(b.bytes)
         /\ \E o \in ingested : SameContent(o, b.bytes)
    /\ \A o \in ingested :
         Cardinality({b \in cas : SameContent(o, b.bytes)}) = 1
    /\ Cardinality(cas) = Cardinality({AsSet(o) : o \in ingested})

\* one content was ingested in two writings that differ inside a nested
\* object, another content was ingested too, and each has its one blob
C17_Witness ==
    /\ \E a, b \in ingested : NestedReorder(a, b)
    /\ \E a, b \in ingested : a[2][1][1] # b[2][1][1] /\ SameContent(a, b)
    /\ Cardinality(cas) = 2

C19_BadFilesRecorded ==
    (scan.pc = "exited" /\ scan.listed) =>
        /\ index[1] = "json"
        /\ \A n \in DOMAIN scan.manifests :
             IF WellFormed(scan.manifests[n])
             THEN /\ Cardinality(SymbolsFor(index, n)) = 1
                  /\ ErrorsFor(index, n) = {}
             ELSE /\ Cardinality(ErrorsFor(index, n)) = 1
                  /\ SymbolsFor(index, n) = {}
        /\ scan.exit = 0

\* C20: at every moment, a crash of the scanner included, symbols.index.json
\* is what it was when the scan started or the complete index of the scan
C20_IndexNeverPartial ==
    \/ index = scan.prev
    \/ /\ scan.pc = "exited"
       /\ CompleteIndex(index, scan.manifests)

C22_OptimizeFeasible ==
    /\ (OptimizeReturned /\ TotalFits(SolverInput)) =>
           Feasible(SolverInput, SolverState.place)
    /\ (fin[1] = "optimize" /\ Feasible(SolverInput, SolverState.place)) =>
           PackMoves(SolverInput, SolverState.place) = {}

C24_ReadStep ==
    \A p \in Procs :
        (pc[p] = "start" /\ pc'[p] = "write") =>
            DictGet(entry'[p], "prev", EmptyStr) = read_latest(latest)
C24_UnlockedAppendsFork ==
    /\ [][C24_ReadStep]_vars
    /\ []((Forked /\ \A p \in Procs : pc[p] = "done" /\ outcome[p] = Ok) =>
            /\ \E f \in wal : f.root = latest
            /\ \E f \in wal : f \notin ChainFrom(wal, latest))

\* two appenders read GENESIS, each wrote its entry and returned, and LATEST
\* names one of the two entries
C24_Witness ==
    /\ \A p \in Procs : pc[p] = "done" /\ outcome[p] = Ok
    /\ \E f, g \in wal :
         /\ f # g
         /\ DictGet(f.frame, "prev", EmptyStr) = GENESIS
         /\ DictGet(g.frame, "prev", EmptyStr) = GENESIS
         /\ latest = f.root
         /\ g \notin ChainFrom(wal, latest)

\* C25: every document the plan builder writes passes verify_plan_integrity,
\* with no sign block, with one added and with one replaced or removed; and
\* a step that touches only the sign block leaves the result of the
\* integrity check as it was
C25_SignStep ==
    (fin[1] = "built" /\ fin'[1] = "built") =>
        verify_plan_integrity(fin'[2]) = verify_plan_integrity(fin[2])
C25_BuiltPlanVerifies ==
    /\ [](fout[1] = "integrity" => fout[2] = Ok)
    /\ [][C25_SignStep]_vars

\* a plan with a route on the shm lane, signed after it was built, has
\* passed the integrity check
C25_Witness ==
    /\ fin[1] = "built"
    /\ "sign" \in DictKeys(fin[2])
    /\ \E i \in DOMAIN DictGet(fin[2], "routes_add", << >>) :
         DictGet(fin[2], "routes_add", << >>)[i][4] = "shm"
    /\ fout = <<"integrity", Ok>>

\* C26: when no apply_plan call is under way and at least one has returned
\* the entry hash, desired.graph.json holds the plan whose plan_id is the
\* frame.plan_id of the entry that LATEST names
C26_CacheMatchesLatest ==
    (Quiescent /\ Succeeded # {}) =>
        \E f \in wal :
            /\ f.root = latest
            /\ cache # NoFile
            /\ DictGet(cache, "plan_id", EmptyStr) = DictGet(f.frame, "plan_id", EmptyStr)

\* C27: when two ingest runs that each ingested a file have ended, the
\* registry index holds the entries present before the runs and, for the key
\* of each run, the hash one of the runs gave that key; and every entry of
\* the index names a blob present in the CAS directory
C27_IndexUpdatesKept ==
    (reg[1] = "runs" /\ \A r \in IngestRuns : Reg.run[r].pc \in {"done", "failed"}) =>
        /\ Reg.file[1] = "index"
        /\ Reg.before \subseteq Reg.file[2]
        /\ \A r \in IngestRuns :
              \E q \in IngestRuns :
                  /\ RunEntry(q)[1] = RunEntry(r)[1]
                  /\ RunEntry(q)[2] = RunEntry(r)[2]
                  /\ RunEntry(q) \in Reg.file[2]
        /\ \A e \in Reg.file[2] : e[3] \in Reg.blobs

\* C28: whichever way a locked append_entry call ends -- it returns, or it
\* raises WALCorruptionError or an I/O error -- the caller does not hold the
\* WAL lock once it has left the call; and an appender that is in the retry
\* loop of _acquire_lock when all other calls have ended gets the lock
C28_ExitStep ==
    \A p \in Procs :
        (pc[p] = "release" /\ pc'[p] # "release") =>
            /\ Left(p)'
            /\ lockHolder' # p
            /\ (exc[p] # NoExc) => (pc'[p] = "done" /\ outcome'[p] = exc[p])
C28_LockReleasedOnExit ==
    /\ [][C28_ExitStep]_vars
    /\ [](\A p \in Procs : Left(p) => lockHolder # p)
    /\ \A q \in Procs :
          (pc[q] = "acquire" /\ \A p \in Procs \ {q} : Left(p))
              ~> (pc[q] = "locked")

\* one call has raised WALCorruptionError and an appender that was
\* waiting holds the lock
C28_Witness ==
    \E p, q \in Procs :
        /\ pc[p] = "done"
        /\ outcome[p][1] = "WALCorruptionError"
        /\ pc[q] = "locked"
        /\ lockHolder = q

\* C29: a validate_path call ends in ValidationError or returns a path below
\* the resolved base directory; a path containing ".." and an absolute path
\* outside the base directory end in ValidationError; and the caller opens
\* only a path that validate_path has returned
C29_PathSandboxed ==
    fin[1] = "validate" =>
        /\ fout[1] \in {"ValidationError", "return", "opened", "raised"}
        /\ fout[1] = "raised" => fout[2] = "ValidationError"
        /\ fout[1] \in {"return", "opened"} =>
              /\ relative_to(fout[2], resolve(PathParts(fin[3])))
              /\ fout[2] = resolve(fout[2])
        /\ (\E i \in DOMAIN fin[2] : fin[2][i] = "..") =>
              (fout[1] = "ValidationError" \/ fout = <<"raised", "ValidationError">>)
        /\ (is_absolute(fin[2]) /\ OutsideBase(fin[2], fin[3])) =>
              (fout[1] = "ValidationError" \/ fout = <<"raised", "ValidationError">>)

\* C30: whatever roles add_role and load_permissions have stored, no role
\* inherits from itself through any chain of parents, and no call of
\* check_permission or get_allowed_resources ends in anything but a return
C30_InheritanceAcyclic ==
    fin[1] = "roles" =>
        /\ InheritanceAcyclic(RolesOf(fin))
        /\ fout # <<"raised", "RecursionError">>

====
